---- MODULE Spec2Model ----
(***************************************************************************)
(* Model of the metadata merge engines of the export plugin UI             *)
(* (src/src/ui.ts): the JPEG segment parser and merge, the PNG chunk       *)
(* parser and merge, and the 'process-jpeg' message handler.               *)
(*                                                                         *)
(* Buffers are sequences of bytes (0..255).  The source indexes buffers    *)
(* from 0; the operators At and subarray keep the source's 0-based         *)
(* offsets and translate to the 1-based sequences of TLA+.                 *)
(***************************************************************************)
EXTENDS Integers, Sequences, FiniteSets, TLC

VARIABLES
  original,   \* msg.original: bytes of the originally uploaded image
  rendered,   \* msg.rendered: bytes of the freshly rendered export
  phase,      \* "input": the message is being produced; "posted": a
              \* message is in flight; "done": the handler has run
  status,     \* text of the #status element
  downloads,  \* the files handed to the user by downloadBytes, in order
  merged,     \* outcome of the last merge call: returned bytes or a throw
  locals      \* origSegs and rendSegs of the last mergeJpegMetadata call

vars == <<original, rendered, phase, status, downloads, merged, locals>>

----------------------------------------------------------------------------
(* Bounds of the model.                                                    *)

\* longest original buffer built, in bytes
MaxOrigLen == 11
\* longest rendered buffer built, in bytes
MaxRendLen == 16
\* number of 'process-jpeg' messages handled in one run
MaxMessages == 2
\* longest buffer handed to parseJpegSegments alone, in bytes
MaxParseLen == 10
\* longest original and rendered buffers handed to mergePngMetadata
MaxPngOrigLen == 46
MaxPngRendLen == 45
\* longest data handed to createPngChunk alone, in bytes
MaxChunkData == 3

----------------------------------------------------------------------------
(* Byte values the source names.                                           *)

xFF == 255
SOI == 216
SOS == 218
EOI == 217
TEM == 1
RST0 == 208
RST7 == 215
APP0 == 224
APP1 == 225
APP2 == 226
APP13 == 237
APP15 == 239
COM == 254

\* value of a typed-array read outside the buffer (undefined)
NoByte == -1

Min(a, b) == IF a < b THEN a ELSE b
Max(a, b) == IF a > b THEN a ELSE b

\* bytes[i], 0-based; out of range reads give undefined
At(bytes, i) ==
  IF 0 <= i /\ i < Len(bytes) THEN bytes[i + 1] ELSE NoByte

\* Uint8Array.prototype.subarray(begin, end): negative offsets count from
\* the end, both offsets are clamped to the buffer, an empty view results
\* when end <= begin
subarray(bytes, begin, end) ==
  LET n == Len(bytes)
      b == IF begin < 0 THEN Max(n + begin, 0) ELSE Min(begin, n)
      e == IF end < 0 THEN Max(n + end, 0) ELSE Min(end, n)
  IN IF e <= b THEN <<>> ELSE SubSeq(bytes, b + 1, e)

RECURSIVE concatUint8(_)
concatUint8(arrays) ==
  IF arrays = <<>> THEN <<>>
  ELSE Head(arrays) \o concatUint8(Tail(arrays))

----------------------------------------------------------------------------
(* JPEG segment model.                                                     *)

JpegSegment(marker, length, start, end, data) ==
  [marker |-> marker, length |-> length, start |-> start, end |-> end,
   data |-> data]

\* variant: the view starts after the marker instead of at it
lengthSegment_PayloadOnly(bytes, marker, i) ==
  LET len == At(bytes, i) * 256 + At(bytes, i + 1)
      start == i - 2
      end == i + len
  IN JpegSegment(marker, len, start, end, subarray(bytes, i, end))

\* the segment pushed for a marker that carries a length field
lengthSegment(bytes, marker, i) ==
  LET len == At(bytes, i) * 256 + At(bytes, i + 1)
      start == i - 2
      end == i + len
  IN JpegSegment(marker, len, start, end, subarray(bytes, start, end))

\* The while loop of parseJpegSegments.  The result carries, besides the
\* segments, the loop variable i at exit and the way the loop was left.
RECURSIVE scanJpegSegments(_, _, _)
scanJpegSegments(bytes, i, segments) ==
  IF i + 4 > Len(bytes)
  THEN [segments |-> segments, i |-> i, exit |-> "end"]
  ELSE IF At(bytes, i) # xFF
  THEN scanJpegSegments(bytes, i + 1, segments)
  ELSE LET marker == At(bytes, i + 1)
           j == i + 2
       IN IF marker = SOS
          THEN [segments |-> segments, i |-> j, exit |-> "sos"]
          ELSE IF marker = EOI
          THEN [segments |-> segments, i |-> j, exit |-> "eoi"]
          ELSE IF marker = TEM \/ (marker >= RST0 /\ marker <= RST7)
          THEN scanJpegSegments(bytes, j,
                 Append(segments,
                        JpegSegment(marker, 0, j - 2, j,
                                    subarray(bytes, j - 2, j))))
          ELSE IF j + 2 > Len(bytes)
          THEN [segments |-> segments, i |-> j, exit |-> "short"]
          ELSE LET seg == lengthSegment(bytes, marker, j)
               IN scanJpegSegments(bytes, seg.end, Append(segments, seg))

\* variant: only the first byte of the magic is tested
startsWithSoi_FirstByte(bytes) == At(bytes, 0) = xFF

startsWithSoi(bytes) == At(bytes, 0) = xFF /\ At(bytes, 1) = SOI

parseJpegSegments(bytes) ==
  IF ~startsWithSoi(bytes)
  THEN [threw |-> TRUE, segments |-> <<>>, i |-> 0, exit |-> "throw"]
  ELSE LET r == scanJpegSegments(bytes, 2, <<>>)
       IN [threw |-> FALSE, segments |-> r.segments, i |-> r.i,
           exit |-> r.exit]

isApp(marker) == marker >= APP0 /\ marker <= APP15

metaMarkers == {APP1, APP2, APP13, COM}

\* variant: APP2 is missing from the kept markers
keepFromOriginal_NoIcc(origSegs) ==
  SelectSeq(origSegs, LAMBDA s : s.marker \in {APP1, APP13, COM})

keepFromOriginal(origSegs) ==
  SelectSeq(origSegs, LAMBDA s : s.marker \in metaMarkers)

\* idx after the "keep first APP0" step
leadingApp0(rendSegs) ==
  IF Len(rendSegs) > 0 /\ rendSegs[1].marker = APP0 THEN 1 ELSE 0

\* variant: the outer test forgets COM, which is no APPn marker
skipRendered_AppOnly(seg, i, idx) ==
  /\ isApp(seg.marker)
  /\ \/ seg.marker \in metaMarkers
     \/ seg.marker = APP0 /\ idx = 1 /\ i = 0

\* the test of the "append the rest of rendered" loop: i is the 0-based
\* position of seg in rendSegs
skipRendered(seg, i, idx) ==
  /\ isApp(seg.marker) \/ seg.marker = COM
  /\ \/ seg.marker \in metaMarkers
     \/ seg.marker = APP0 /\ idx = 1 /\ i = 0

RECURSIVE restOfRendered(_, _, _)
restOfRendered(rendSegs, i, idx) ==
  IF i >= Len(rendSegs) THEN <<>>
  ELSE (IF skipRendered(rendSegs[i + 1], i, idx)
        THEN <<>> ELSE <<rendSegs[i + 1].data>>)
       \o restOfRendered(rendSegs, i + 1, idx)

\* the byte search for SOS in rendered
RECURSIVE findSos(_, _)
findSos(bytes, sosIndex) ==
  IF sosIndex + 1 < Len(bytes)
  THEN IF At(bytes, sosIndex) = xFF /\ At(bytes, sosIndex + 1) = SOS
       THEN sosIndex
       ELSE findSos(bytes, sosIndex + 1)
  ELSE sosIndex

\* how a call ends: it returns bytes, it throws, or it never returns
Threw == [outcome |-> "throw", bytes |-> <<>>]
Returned(bytes) == [outcome |-> "return", bytes |-> bytes]
Hangs == [outcome |-> "hang", bytes |-> <<>>]
NotCalled == [outcome |-> "none", bytes |-> <<>>]

\* a parse that was not reached
NotParsed == [threw |-> FALSE, segments |-> <<>>, i |-> 0, exit |-> "none"]

\* the locals origSegs and rendSegs as mergeJpegMetadata leaves them
mergeLocals(orig, rend) ==
  LET o == parseJpegSegments(orig)
  IN [origSegs |-> o,
      rendSegs |-> IF o.threw \/ ~startsWithSoi(rend)
                   THEN NotParsed ELSE parseJpegSegments(rend)]

\* the chunk list of mergeJpegMetadata once both inputs passed the checks
mergeChunks(origSegs, rendSegs, bytes) ==
  LET keep == keepFromOriginal(origSegs)
      idx == leadingApp0(rendSegs)
  IN <<subarray(bytes, 0, 2)>>
     \o (IF idx = 1 THEN <<rendSegs[1].data>> ELSE <<>>)
     \o [k \in 1..Len(keep) |-> keep[k].data]
     \o restOfRendered(rendSegs, idx, idx)
     \o <<subarray(bytes, findSos(bytes, 2), Len(bytes))>>

mergeJpegMetadata(orig, rend) ==
  LET o == parseJpegSegments(orig)
  IN IF o.threw THEN Threw
     ELSE IF ~startsWithSoi(rend) THEN Threw
     ELSE Returned(concatUint8(
            mergeChunks(o.segments, parseJpegSegments(rend).segments, rend)))

----------------------------------------------------------------------------
(* The inputs of the JPEG merge: buffers are built from pieces.            *)

\* what a buffer may begin with: a lone byte, a wrong magic, or SOI
JpegStarts == { <<xFF>>, <<xFF, 0>>, <<0, SOI>>, <<xFF, SOI>> }

OrigPieces ==
  { <<xFF, APP1, 0, 3, 69>>,      \* APP1 with a one-byte payload
    <<xFF, APP1, 0, 2>>,          \* a second, different APP1
    <<xFF, APP2, 0, 2>>,
    <<xFF, APP13, 0, 2>>,
    <<xFF, COM, 0, 0>>,           \* COM with a declared length of 0
    <<xFF, APP0, 0, 2>>,
    <<xFF, APP1, 0, 4, xFF, SOS>>,\* APP1 whose payload holds FF DA
    <<xFF, APP1, 0, 4>> }         \* APP1 whose payload is what follows

RendPieces ==
  { <<xFF, APP0, 0, 2>>,
    <<xFF, APP1, 0, 2>>,
    <<xFF, COM, 0, 2>>,
    <<xFF, 219, 0, 4, xFF, SOS>>, \* DQT whose payload holds FF DA
    <<xFF, 219, 0, 6>>,           \* DQT whose payload is what follows
    <<xFF, RST0>>,
    <<xFF, SOS, 0, 0>> }          \* SOS and two bytes of scan data

AppendOriginal ==
  /\ phase = "input"
  /\ \E p \in (IF original = <<>> THEN JpegStarts ELSE OrigPieces) :
       /\ original = <<>> \/ startsWithSoi(original)
       /\ Len(original) + Len(p) <= MaxOrigLen
       /\ original' = original \o p
  /\ UNCHANGED <<rendered, phase, status, downloads, merged, locals>>

AppendRendered ==
  /\ phase = "input"
  /\ \E p \in (IF rendered = <<>> THEN JpegStarts ELSE RendPieces) :
       /\ rendered = <<>> \/ startsWithSoi(rendered)
       /\ Len(rendered) + Len(p) <= MaxRendLen
       /\ rendered' = rendered \o p
  /\ UNCHANGED <<original, phase, status, downloads, merged, locals>>

\* variant: the catch branch reports the failure and delivers nothing
HandleProcessJpeg_NoFallback ==
  /\ phase \in {"input", "posted"}
  /\ LET m == mergeJpegMetadata(original, rendered)
     IN /\ merged' = m
        /\ locals' = mergeLocals(original, rendered)
        /\ IF m.outcome = "return"
           THEN /\ downloads' = Append(downloads, m.bytes)
                /\ status' = "Done. File downloaded."
           ELSE /\ downloads' = downloads
                /\ status' =
                     "Failed to merge metadata. Exported plain JPEG instead."
  /\ phase' = "done"
  /\ UNCHANGED <<original, rendered>>

\* window.onmessage, branch msg.type === 'process-jpeg'
HandleProcessJpeg ==
  /\ phase \in {"input", "posted"}
  /\ LET m == mergeJpegMetadata(original, rendered)
     IN /\ merged' = m
        /\ locals' = mergeLocals(original, rendered)
        /\ IF m.outcome = "return"
           THEN /\ downloads' = Append(downloads, m.bytes)
                /\ status' = "Done. File downloaded."
           ELSE /\ downloads' = Append(downloads, rendered)
                /\ status' =
                     "Failed to merge metadata. Exported plain JPEG instead."
  /\ phase' = "done"
  /\ UNCHANGED <<original, rendered>>

\* a further 'process-jpeg' message for the same original whose rendered
\* bytes are the file delivered before
PostMergedAgain ==
  /\ phase = "done"
  /\ Len(downloads) < MaxMessages
  /\ rendered' = downloads[Len(downloads)]
  /\ phase' = "posted"
  /\ UNCHANGED <<original, status, downloads, merged, locals>>

Init ==
  /\ original = <<>>
  /\ rendered = <<>>
  /\ phase = "input"
  /\ status = ""
  /\ downloads = <<>>
  /\ merged = NotCalled
  /\ locals = [origSegs |-> NotParsed, rendSegs |-> NotParsed]

Next ==
  \/ AppendOriginal
  \/ AppendRendered
  \/ HandleProcessJpeg
  \/ PostMergedAgain

Spec == Init /\ [][Next]_vars

----------------------------------------------------------------------------
(* parseJpegSegments on its own: one buffer, built from a richer set of    *)
(* pieces, is handed to the parser.                                        *)

ParsePieces ==
  { <<0>>,                        \* a byte that is not FF
    <<xFF, SOS>>,
    <<xFF, EOI>>,
    <<xFF, RST0>>,
    <<xFF, TEM>>,
    <<xFF, APP1, 0, 2>>,
    <<xFF, COM, 0, 0>>,           \* declared length 0
    <<xFF, APP0, 0, 1>>,          \* declared length 1
    <<xFF, 219, 0, 3, 7>>,        \* DQT with a one-byte payload
    <<xFF, 219, 0, 6>> }          \* DQT whose payload is what follows

AppendBuffer ==
  /\ phase = "input"
  /\ \E p \in (IF rendered = <<>> THEN JpegStarts ELSE ParsePieces) :
       /\ rendered = <<>> \/ startsWithSoi(rendered)
       /\ Len(rendered) + Len(p) <= MaxParseLen
       /\ rendered' = rendered \o p
  /\ UNCHANGED <<original, phase, status, downloads, merged, locals>>

\* a call of parseJpegSegments(rendered); a throw leaves phase "threw"
CallParseJpeg ==
  /\ phase = "input"
  /\ LET r == parseJpegSegments(rendered)
     IN /\ locals' = [origSegs |-> NotParsed, rendSegs |-> r]
        /\ phase' = IF r.threw THEN "threw" ELSE "parsed"
  /\ UNCHANGED <<original, rendered, status, downloads, merged>>

ParseNext ==
  \/ AppendBuffer
  \/ CallParseJpeg

SpecParse == Init /\ [][ParseNext]_vars

----------------------------------------------------------------------------
(* PNG chunk model.                                                        *)

PngSignature == <<137, 80, 78, 71, 13, 10, 26, 10>>

\* chunk types and text the source names, as character codes
TypeIHDR == <<73, 72, 68, 82>>
TypeIDAT == <<73, 68, 65, 84>>
TypeIEND == <<73, 69, 78, 68>>
TypeEXIf == <<101, 88, 73, 102>>
TypeICCP == <<105, 67, 67, 80>>
TypeITXt == <<105, 84, 88, 116>>
TextExif == <<69, 120, 105, 102>>
TextIccProfile == <<73, 67, 67, 95, 80, 82, 79, 70, 73, 76, 69>>
TextXapNs ==
  <<104, 116, 116, 112, 58, 47, 47, 110, 115, 46, 97, 100, 111, 98, 101, 46,
    99, 111, 109, 47, 120, 97, 112, 47, 49, 46, 48, 47>>
TextXpacket == <<60, 63, 120, 112, 97, 99, 107, 101, 116>>
TextXmpmeta == <<120, 58, 120, 109, 112, 109, 101, 116, 97>>
TextXmStart == <<60, 63, 120, 109>>
KeywordXmp ==
  <<88, 77, 76, 58, 99, 111, 109, 46, 97, 100, 111, 98, 101, 46, 120, 109,
    112>>

\* an operand of << or |: undefined converts to 0
ToInt(byte) == IF byte = NoByte THEN 0 ELSE byte

\* (b0 << 24) | (b1 << 16) | (b2 << 8) | b3, a signed 32-bit value: a
\* first byte of 128 or more gives a negative number
int32At(bytes, i) ==
  LET b0 == ToInt(At(bytes, i))
      top == IF b0 >= 128 THEN b0 - 256 ELSE b0
  IN ((top * 256 + ToInt(At(bytes, i + 1))) * 256
        + ToInt(At(bytes, i + 2))) * 256 + ToInt(At(bytes, i + 3))

PngChunk(length, type, data, crc, start, end) ==
  [length |-> length, type |-> type, data |-> data, crc |-> crc,
   start |-> start, end |-> end]

\* the chunk read at offset i
chunkAt(bytes, i) ==
  LET length == int32At(bytes, i)
      dataStart == i + 8
      dataEnd == dataStart + length
      crcStart == dataEnd
      crcEnd == crcStart + 4
  IN PngChunk(length, subarray(bytes, i + 4, i + 8),
              subarray(bytes, dataStart, dataEnd),
              int32At(bytes, crcStart), i, crcEnd)

\* The while loop of parsePngChunks.  The loop's course depends on i alone,
\* so an offset i that comes back means the loop never ends: visited holds
\* the offsets at which a chunk was read.
RECURSIVE scanPngChunks(_, _, _, _)
scanPngChunks(bytes, i, chunks, visited) ==
  IF i \in visited
  THEN [chunks |-> chunks, exit |-> "never"]
  ELSE IF i + 12 > Len(bytes)
  THEN [chunks |-> chunks, exit |-> "end"]
  ELSE LET chunk == chunkAt(bytes, i)
       IN IF chunk.end > Len(bytes)
          THEN [chunks |-> chunks, exit |-> "overrun"]
          ELSE IF chunk.type = TypeIEND
          THEN [chunks |-> Append(chunks, chunk), exit |-> "iend"]
          ELSE scanPngChunks(bytes, chunk.end, Append(chunks, chunk),
                             visited \cup {i})

hasPngSignature(bytes) ==
  /\ Len(bytes) >= 8
  /\ \A k \in 1..8 : bytes[k] = PngSignature[k]

parsePngChunks(bytes) ==
  IF ~hasPngSignature(bytes)
  THEN [chunks |-> <<>>, exit |-> "throw"]
  ELSE scanPngChunks(bytes, 8, <<>>, {})

\* The 32-bit values of the CRC are kept as their four bytes, most
\* significant first, which is also the order createPngChunk writes them.
RECURSIVE xor8(_, _)
xor8(a, b) ==
  IF a = 0 THEN b
  ELSE IF b = 0 THEN a
  ELSE ((a + b) % 2) + 2 * xor8(a \div 2, b \div 2)

\* v ^ w
xor32(v, w) ==
  <<xor8(v[1], w[1]), xor8(v[2], w[2]), xor8(v[3], w[3]), xor8(v[4], w[4])>>

\* v >>> 1
shr1(v) ==
  <<v[1] \div 2,
    (v[2] \div 2) + (v[1] % 2) * 128,
    (v[3] \div 2) + (v[2] % 2) * 128,
    (v[4] \div 2) + (v[3] % 2) * 128>>

\* v >>> 8
shr8(v) == <<0, v[1], v[2], v[3]>>

\* the polynomial 0xEDB88320
crcPolynomial == <<237, 184, 131, 32>>

\* the inner loop that fills crcTable[i]
RECURSIVE crcTableEntry(_, _)
crcTableEntry(crc, j) ==
  IF j >= 8 THEN crc
  ELSE crcTableEntry(IF crc[4] % 2 = 1
                     THEN xor32(crcPolynomial, shr1(crc))
                     ELSE shr1(crc),
                     j + 1)

crcTable == [n \in 0..255 |-> crcTableEntry(<<0, 0, 0, n>>, 0)]

\* crc = crcTable[(crc ^ byte) & 0xFF] ^ (crc >>> 8), over the bytes
crcStep(crc, byte) == xor32(crcTable[xor8(crc[4], byte)], shr8(crc))

\* the loop over the bytes, left to right.  The range is halved and the
\* value after the left half is computed before the right half is entered,
\* which keeps the evaluation depth logarithmic in the length.
RECURSIVE crcOver(_, _)
crcOver(crc, bytes) ==
  IF bytes = <<>> THEN crc
  ELSE IF Len(bytes) = 1 THEN crcStep(crc, bytes[1])
  ELSE LET half == Len(bytes) \div 2
           left == crcOver(crc, SubSeq(bytes, 1, half))
       IN  IF Len(left) = 4
           THEN crcOver(left, SubSeq(bytes, half + 1, Len(bytes)))
           ELSE left

\* variant: the final XOR with 0xFFFFFFFF is left out
calculateCrc32_NoFinalXor(typeBytes, data) ==
  crcOver(crcOver(<<255, 255, 255, 255>>, typeBytes), data)

calculateCrc32(typeBytes, data) ==
  xor32(crcOver(crcOver(<<255, 255, 255, 255>>, typeBytes), data),
        <<255, 255, 255, 255>>)

\* the four bytes of a length, most significant first
bigEndian32(v) ==
  <<(v \div 16777216) % 256, (v \div 65536) % 256, (v \div 256) % 256,
    v % 256>>

\* typeBytes[i] = type.charCodeAt(i) for i = 0..3: a type is a sequence of
\* character codes; a Uint8Array element keeps the code modulo 256, and
\* the NaN of a missing character is stored as 0
typeBytesOf(type) ==
  [k \in 1..4 |-> IF k <= Len(type) THEN type[k] % 256 ELSE 0]

createPngChunk(type, data) ==
  concatUint8(<<bigEndian32(Len(data)), typeBytesOf(type), data,
                calculateCrc32(typeBytesOf(type), data)>>)

\* header.includes(needle) / header.startsWith(needle) on character codes
includes(hay, needle) ==
  \E k \in 0..(Len(hay) - Len(needle)) :
    SubSeq(hay, k + 1, k + Len(needle)) = needle

startsWith(hay, needle) ==
  Len(hay) >= Len(needle) /\ SubSeq(hay, 1, Len(needle)) = needle

\* the value null of the extractors
Null == [found |-> FALSE, data |-> <<>>]
Found(data) == [found |-> TRUE, data |-> data]

\* variant: the view starts at the 'Exif' identifier instead of behind it
exifAt_KeepIdentifier(bytes, marker, i, len) ==
  IF /\ marker = APP1
     /\ i + 8 <= Len(bytes)
     /\ subarray(bytes, i + 2, i + 6) = TextExif
     /\ At(bytes, i + 6) = 0
     /\ At(bytes, i + 7) = 0
     /\ Len(subarray(bytes, i + 8, i + len)) > 0
  THEN Found(subarray(bytes, i + 2, i + len))
  ELSE Null

\* what the three extractors share: the walk over the segments of a JPEG.
\* onSegment(bytes, marker, i, len) is what the body of the loop returns
\* for a segment with a length field at i, or Null to go on.
exifAt(bytes, marker, i, len) ==
  IF /\ marker = APP1
     /\ i + 8 <= Len(bytes)
     /\ subarray(bytes, i + 2, i + 6) = TextExif
     /\ At(bytes, i + 6) = 0
     /\ At(bytes, i + 7) = 0
     /\ Len(subarray(bytes, i + 8, i + len)) > 0
  THEN Found(subarray(bytes, i + 8, i + len))
  ELSE Null

iccAt(bytes, marker, i, len) ==
  IF /\ marker = APP2
     /\ startsWith(subarray(bytes, i + 2, i + 14), TextIccProfile)
  THEN Found(subarray(bytes, i + 14, i + len))
  ELSE Null

\* xmlStart and xmlEnd of extractXmpForPng
xmlStartOf(segment) ==
  LET hits == {j \in 0..(Len(segment) - 5) :
                 subarray(segment, j, j + 4) = TextXmStart}
  IN IF hits = {} THEN 0 ELSE CHOOSE j \in hits : \A h \in hits : j <= h

xmlEndOf(segment, xmlStart) ==
  LET hits == {j \in xmlStart..(Len(segment) - 1) : At(segment, j) = 0}
  IN IF hits = {} THEN Len(segment)
     ELSE CHOOSE j \in hits : \A h \in hits : j <= h

xmpAt(bytes, marker, i, len) ==
  LET segment == subarray(bytes, i + 2, i + len)
      header == subarray(segment, 0, Min(100, Len(segment)))
  IN IF /\ marker = APP1
        /\ Len(segment) >= 29
        /\ \/ includes(header, TextXapNs)
           \/ includes(header, TextXpacket)
           \/ includes(header, TextXmpmeta)
     THEN Found(subarray(segment, xmlStartOf(segment),
                         xmlEndOf(segment, xmlStartOf(segment))))
     ELSE Null

\* the while loop of an extractor; kind selects the body
RECURSIVE extractLoop(_, _, _)
extractLoop(kind, bytes, i) ==
  IF i + 4 > Len(bytes) THEN Null
  ELSE IF At(bytes, i) # xFF THEN extractLoop(kind, bytes, i + 1)
  ELSE LET marker == At(bytes, i + 1)
           j == i + 2
       IN IF marker = SOS \/ marker = EOI THEN Null
          ELSE IF marker = TEM \/ (marker >= RST0 /\ marker <= RST7)
          THEN extractLoop(kind, bytes, j)
          ELSE IF j + 2 > Len(bytes) THEN Null
          ELSE LET len == At(bytes, j) * 256 + At(bytes, j + 1)
                   hit == CASE kind = "exif" -> exifAt(bytes, marker, j, len)
                            [] kind = "icc" -> iccAt(bytes, marker, j, len)
                            [] OTHER -> xmpAt(bytes, marker, j, len)
               IN IF hit.found THEN hit
                  ELSE extractLoop(kind, bytes, j + len)

isJpeg(bytes) ==
  Len(bytes) >= 2 /\ At(bytes, 0) = xFF /\ At(bytes, 1) = SOI

extractExifForPng(jpegBytes) ==
  IF ~isJpeg(jpegBytes) THEN Null ELSE extractLoop("exif", jpegBytes, 2)

extractIccForPng(jpegBytes) ==
  IF ~isJpeg(jpegBytes) THEN Null ELSE extractLoop("icc", jpegBytes, 2)

extractXmpForPng(jpegBytes) ==
  IF ~isJpeg(jpegBytes) THEN Null ELSE extractLoop("xmp", jpegBytes, 2)

\* index of the first chunk of the given type at 0-based index from or
\* later, or -1
firstChunkOfType(chunks, type, from) ==
  LET hits == {k \in from..(Len(chunks) - 1) : chunks[k + 1].type = type}
  IN IF hits = {} THEN -1 ELSE CHOOSE k \in hits : \A h \in hits : k <= h

\* insertIndex of mergePngMetadata, -1 when there is no IHDR
insertIndexOf(chunks) ==
  LET ihdr == firstChunkOfType(chunks, TypeIHDR, 0)
  IN IF ihdr = -1 THEN -1
     ELSE LET idat == firstChunkOfType(chunks, TypeIDAT, ihdr + 1)
          IN IF idat = -1 THEN ihdr + 1 ELSE idat

\* the data of the iTXt chunk
itxtData(xmpData) == KeywordXmp \o <<0, 0, 0, 0, 0>> \o xmpData

\* the chunks mergePngMetadata inserts
insertedChunks(exifData, xmpData) ==
  (IF exifData.found /\ Len(exifData.data) > 0
   THEN <<createPngChunk(TypeEXIf, exifData.data)>> ELSE <<>>)
  \o (IF xmpData.found /\ Len(xmpData.data) > 0
      THEN <<createPngChunk(TypeITXt, itxtData(xmpData.data))>> ELSE <<>>)

\* rendered.subarray(chunk.start, chunk.end) for the chunks at the 0-based
\* indexes from..to-1
chunkViews(bytes, chunks, from, to) ==
  [k \in 1..(to - from) |->
     subarray(bytes, chunks[from + k].start, chunks[from + k].end)]

mergePngMetadata(orig, rend) ==
  LET parsed == parsePngChunks(rend)
      chunks == parsed.chunks
      exifData == extractExifForPng(orig)
      iccData == extractIccForPng(orig)
      xmpData == extractXmpForPng(orig)
      insertIndex == insertIndexOf(chunks)
  IN IF parsed.exit = "never" THEN Hangs
     ELSE IF parsed.exit = "throw" THEN Returned(rend)
     ELSE IF ~exifData.found /\ ~xmpData.found /\ ~iccData.found
     THEN Returned(rend)
     ELSE IF insertIndex = -1 THEN Returned(rend)
     ELSE Returned(concatUint8(
            <<PngSignature>>
            \o chunkViews(rend, chunks, 0, insertIndex)
            \o insertedChunks(exifData, xmpData)
            \o chunkViews(rend, chunks, insertIndex, Len(chunks))))

----------------------------------------------------------------------------
(* The inputs of the PNG merge, and the call.                              *)

\* what a rendered buffer may begin with: too short for a signature, a
\* wrong signature, or the PNG signature
PngStarts ==
  { <<137, 80, 78>>,
    <<137, 80, 78, 71, 13, 10, 26, 11>>,
    PngSignature }

\* chunks as bytes: length, type, data, crc (the parser does not check it)
PngPieces ==
  { <<0, 0, 0, 0>> \o TypeIHDR \o <<1, 1, 1, 1>>,
    <<0, 0, 0, 1>> \o TypeIDAT \o <<7>> \o <<2, 2, 2, 2>>,
    <<0, 0, 0, 0>> \o TypeIEND \o <<174, 66, 96, 130>>,
    <<0, 0, 0, 0>> \o TypeICCP \o <<6, 6, 6, 6>>,
    <<0, 0, 0, 5>> \o TypeIDAT \o <<3, 3, 3, 3>>,         \* data is cut
    <<255, 255, 255, 248>> \o TypeIDAT \o <<4, 4, 4, 4>>, \* top bit set
    <<255, 255, 255, 244>> \o TypeIDAT \o <<5, 5, 5, 5>> }

\* segments of an original JPEG that carry metadata
PngOrigPieces ==
  { <<xFF, APP1, 0, 9>> \o TextExif \o <<0, 0, 42>>,      \* EXIF, 1 byte
    <<xFF, APP1, 0, 10>> \o TextExif \o <<0, 0, 43, 44>>, \* EXIF, 2 bytes
    <<xFF, APP1, 0, 8>> \o TextExif \o <<0, 0>>,          \* EXIF, empty
    <<xFF, APP2, 0, 14>> \o TextIccProfile \o <<0>>,      \* ICC, empty
    <<xFF, APP2, 0, 15>> \o TextIccProfile \o <<0, 9>>,   \* ICC, 1 byte
    <<xFF, APP1, 0, 31>> \o TextXapNs \o <<0>>,           \* XMP header
    <<xFF, APP1, 0, 40>> \o TextXapNs \o <<0>> \o TextXpacket,
    <<xFF, APP1, 0, 36>> \o TextXapNs \o <<0>> \o TextXmStart \o <<108>> }

AppendPngOriginal ==
  /\ phase = "input"
  /\ \E p \in (IF original = <<>> THEN JpegStarts ELSE PngOrigPieces) :
       /\ original = <<>> \/ startsWithSoi(original)
       /\ Len(original) + Len(p) <= MaxPngOrigLen
       /\ original' = original \o p
  /\ UNCHANGED <<rendered, phase, status, downloads, merged, locals>>

AppendPngRendered ==
  /\ phase = "input"
  /\ \E p \in (IF rendered = <<>> THEN PngStarts ELSE PngPieces) :
       /\ rendered = <<>> \/ hasPngSignature(rendered)
       /\ Len(rendered) + Len(p) <= MaxPngRendLen
       /\ rendered' = rendered \o p
  /\ UNCHANGED <<original, phase, status, downloads, merged, locals>>

\* a call of mergePngMetadata(original, rendered)
CallMergePng ==
  /\ phase = "input"
  /\ merged' = mergePngMetadata(original, rendered)
  /\ phase' = "done"
  /\ UNCHANGED <<original, rendered, status, downloads, locals>>

PngNext ==
  \/ AppendPngOriginal
  \/ AppendPngRendered
  \/ CallMergePng

SpecPng == Init /\ [][PngNext]_vars

----------------------------------------------------------------------------
(* createPngChunk alone: original holds the type, a string of four         *)
(* character codes, rendered the data; the chunk built is kept in merged.  *)

\* character codes of a type: letters, 0, the largest one-byte code and a
\* code beyond one byte
TypeChars == {73, 101, 0, 255, 321}

DataBytes == {0, 7, 255}

AppendTypeChar ==
  /\ phase = "input"
  /\ Len(original) < 4
  /\ \E ch \in TypeChars : original' = Append(original, ch)
  /\ UNCHANGED <<rendered, phase, status, downloads, merged, locals>>

AppendDataByte ==
  /\ phase = "input"
  /\ Len(rendered) < MaxChunkData
  /\ \E b \in DataBytes : rendered' = Append(rendered, b)
  /\ UNCHANGED <<original, phase, status, downloads, merged, locals>>

\* a call of createPngChunk(type, data) with a type of four characters
CallCreatePngChunk ==
  /\ phase = "input"
  /\ Len(original) = 4
  /\ merged' = Returned(createPngChunk(original, rendered))
  /\ phase' = "done"
  /\ UNCHANGED <<original, rendered, status, downloads, locals>>

ChunkNext ==
  \/ AppendTypeChar
  \/ AppendDataByte
  \/ CallCreatePngChunk

SpecChunk == Init /\ [][ChunkNext]_vars

----------------------------------------------------------------------------
(* The EXIF decoder (src/src/exif-parser.ts).                              *)
(*                                                                         *)
(* A JavaScript value is a record [kind, v]: a string is the sequence of   *)
(* its character codes, a number the pair <<numerator, denominator>> of a  *)
(* fraction in lowest terms with a positive denominator, an array the      *)
(* sequence of its elements; undefined and null have an empty v.           *)

Js(kind, v) == [kind |-> kind, v |-> v]

Undefined == Js("undefined", <<>>)

Abs(n) == IF n < 0 THEN -n ELSE n

RECURSIVE Gcd(_, _)
Gcd(a, b) == IF b = 0 THEN a ELSE Gcd(b, a % b)

\* the number n / d, d # 0
Fraction(n, d) ==
  LET g == Gcd(Abs(n), Abs(d))
      sign == IF d < 0 THEN -1 ELSE 1
  IN Js("number", <<sign * (n \div g), sign * (d \div g)>>)

\* !value
Falsy(value) ==
  \/ value.kind \in {"undefined", "null"}
  \/ value.kind = "string" /\ value.v = <<>>
  \/ value.kind = "number" /\ value.v[1] = 0

readUint16(bytes, offset, littleEndian) ==
  IF littleEndian
  THEN ToInt(At(bytes, offset)) + 256 * ToInt(At(bytes, offset + 1))
  ELSE 256 * ToInt(At(bytes, offset)) + ToInt(At(bytes, offset + 1))

\* the result of | and << is a signed 32-bit value: with the top bit of the
\* most significant byte set, readUint32 returns a negative number
readUint32(bytes, offset, littleEndian) ==
  LET b0 == ToInt(At(bytes, offset))
      b1 == ToInt(At(bytes, offset + 1))
      b2 == ToInt(At(bytes, offset + 2))
      b3 == ToInt(At(bytes, offset + 3))
      msb == IF littleEndian THEN b3 ELSE b0
      top == IF msb >= 128 THEN msb - 256 ELSE msb
  IN IF littleEndian
     THEN ((top * 256 + b2) * 256 + b1) * 256 + b0
     ELSE ((top * 256 + b1) * 256 + b2) * 256 + b3

\* uint > 0x7FFFFFFF never holds for the signed result of readUint32
readInt32(bytes, offset, littleEndian) == readUint32(bytes, offset, littleEndian)

getTypeSize(type) ==
  CASE type = 1 -> 1
    [] type = 2 -> 1
    [] type = 3 -> 2
    [] type = 4 -> 4
    [] type = 5 -> 8
    [] type = 7 -> 1
    [] type = 9 -> 4
    [] type = 10 -> 8
    [] OTHER -> 1

\* the ASCII case reading all count characters, terminator included
asciiValue_KeepTerminator(bytes, offset, count) ==
  LET inside == {i \in 0..(count - 1) : offset + i < Len(bytes)}
      n == Cardinality(inside)
  IN Js("string", [k \in 1..n |-> ToInt(At(bytes, offset + k - 1))])

\* the ASCII case of readValue: count - 1 characters, those outside the
\* buffer left out
asciiValue(bytes, offset, count) ==
  LET inside == {i \in 0..(count - 2) : offset + i < Len(bytes)}
      n == Cardinality(inside)
  IN Js("string", [k \in 1..n |-> ToInt(At(bytes, offset + k - 1))])

\* numerator / denominator, or 0 for a denominator of 0
rationalValue(numerator, denominator) ==
  IF denominator # 0 THEN Fraction(numerator, denominator)
  ELSE Fraction(0, 1)

readValue(bytes, offset, type, count, littleEndian, baseOffset) ==
  CASE type = 1 ->
         IF count = 1
         THEN (IF At(bytes, offset) = NoByte THEN Undefined
               ELSE Fraction(At(bytes, offset), 1))
         ELSE Js("array",
                 [k \in 1..Len(subarray(bytes, offset, offset + count)) |->
                    Fraction(subarray(bytes, offset, offset + count)[k], 1)])
    [] type = 2 -> asciiValue(bytes, offset, count)
    [] type = 3 ->
         IF count = 1
         THEN Fraction(readUint16(bytes, offset, littleEndian), 1)
         ELSE Js("array",
                 [k \in 1..Max(count, 0) |->
                    Fraction(readUint16(bytes, offset + (k - 1) * 2,
                                        littleEndian), 1)])
    [] type = 4 ->
         IF count = 1
         THEN Fraction(readUint32(bytes, offset, littleEndian), 1)
         ELSE Js("array",
                 [k \in 1..Max(count, 0) |->
                    Fraction(readUint32(bytes, offset + (k - 1) * 4,
                                        littleEndian), 1)])
    [] type = 5 ->
         rationalValue(readUint32(bytes, offset, littleEndian),
                       readUint32(bytes, offset + 4, littleEndian))
    [] type = 10 ->
         rationalValue(readInt32(bytes, offset, littleEndian),
                       readInt32(bytes, offset + 4, littleEndian))
    [] OTHER -> Js("null", <<>>)

\* EXIF_TAGS
TagMake == 271
TagModel == 272
TagDateTime == 306
TagDateTimeOriginal == 36867
TagFocalLength == 37386
TagFNumber == 33437
TagExposureTime == 33434
TagISOSpeedRatings == 34855
TagColorSpace == 40961
TagMeteringMode == 37383
TagExposureProgram == 34850
\* the tag of the pointer to the EXIF sub-IFD
TagExifSubIFD == 34665

\* METERING_MODES and EXPOSURE_PROGRAMS, the names as character codes
METERING_MODES ==
  [k \in {0, 1, 2, 3, 4, 5, 6, 255} |->
     CASE k = 0 -> <<85, 110, 107, 110, 111, 119, 110>>   \* Unknown
       [] k = 1 -> <<65, 118, 101, 114, 97, 103, 101>>   \* Average
       [] k = 2 -> <<67, 101, 110, 116, 101, 114, 45, 119, 101, 105, 103, 104, 116, 101, 100, 32, 97, 118, 101, 114, 97, 103, 101>>   \* Center-weighted average
       [] k = 3 -> <<83, 112, 111, 116>>   \* Spot
       [] k = 4 -> <<77, 117, 108, 116, 105, 45, 115, 112, 111, 116>>   \* Multi-spot
       [] k = 5 -> <<77, 117, 108, 116, 105, 45, 115, 101, 103, 109, 101, 110, 116>>   \* Multi-segment
       [] k = 6 -> <<80, 97, 114, 116, 105, 97, 108>>   \* Partial
       [] k = 255 -> <<79, 116, 104, 101, 114>>]   \* Other

EXPOSURE_PROGRAMS ==
  [k \in {0, 1, 2, 3, 4, 5, 6, 7, 8} |->
     CASE k = 0 -> <<78, 111, 116, 32, 100, 101, 102, 105, 110, 101, 100>>   \* Not defined
       [] k = 1 -> <<77, 97, 110, 117, 97, 108>>   \* Manual
       [] k = 2 -> <<78, 111, 114, 109, 97, 108, 32, 112, 114, 111, 103, 114, 97, 109>>   \* Normal program
       [] k = 3 -> <<65, 112, 101, 114, 116, 117, 114, 101, 32, 112, 114, 105, 111, 114, 105, 116, 121>>   \* Aperture priority
       [] k = 4 -> <<83, 104, 117, 116, 116, 101, 114, 32, 112, 114, 105, 111, 114, 105, 116, 121>>   \* Shutter priority
       [] k = 5 -> <<67, 114, 101, 97, 116, 105, 118, 101, 32, 112, 114, 111, 103, 114, 97, 109>>   \* Creative program
       [] k = 6 -> <<65, 99, 116, 105, 111, 110, 32, 112, 114, 111, 103, 114, 97, 109>>   \* Action program
       [] k = 7 -> <<80, 111, 114, 116, 114, 97, 105, 116, 32, 109, 111, 100, 101>>   \* Portrait mode
       [] k = 8 -> <<76, 97, 110, 100, 115, 99, 97, 112, 101, 32, 109, 111, 100, 101>>]   \* Landscape mode

\* the string literals of the two decoders, as character codes
Literal ==
  [ sRGB |->
      <<115, 82, 71, 66>>,
    Uncalibrated |->
      <<85, 110, 99, 97, 108, 105, 98, 114, 97, 116, 101, 100>>,
    RGB |->
      <<82, 71, 66>>,
    mm |->
      <<32, 109, 109>>,
    fSlash |->
      <<102, 47>>,
    oneSlash |->
      <<49, 47>>,
    Mode |->
      <<77, 111, 100, 101, 32>>,
    Program |->
      <<80, 114, 111, 103, 114, 97, 109, 32>>,
    Infinity |->
      <<73, 110, 102, 105, 110, 105, 116, 121>>,
    Exif |->
      <<69, 120, 105, 102>>,
    II |->
      <<73, 73>>,
    MM |->
      <<77, 77>>,
    BIM |->
      <<56, 66, 73, 77>>,
    Photoshop |->
      <<80, 104, 111, 116, 111, 115, 104, 111, 112, 32, 51, 46, 48>>,
    dcSubject |->   \* '<dc:subject'
      <<60, 100, 99, 58, 115, 117, 98, 106, 101, 99, 116>>,
    bag |->   \* '<rdf:Bag>'
      <<60, 114, 100, 102, 58, 66, 97, 103, 62>>,
    bagEnd |->   \* '</rdf:Bag>'
      <<60, 47, 114, 100, 102, 58, 66, 97, 103, 62>>,
    seq |->   \* '<rdf:Seq>'
      <<60, 114, 100, 102, 58, 83, 101, 113, 62>>,
    seqEnd |->   \* '</rdf:Seq>'
      <<60, 47, 114, 100, 102, 58, 83, 101, 113, 62>>,
    li |->   \* '<rdf:li'
      <<60, 114, 100, 102, 58, 108, 105>>,
    liEnd |->   \* '</rdf:li>'
      <<60, 47, 114, 100, 102, 58, 108, 105, 62>>,
    lt |->   \* '&lt;'
      <<38, 108, 116, 59>>,
    gt |->   \* '&gt;'
      <<38, 103, 116, 59>>,
    amp |->   \* '&amp;'
      <<38, 97, 109, 112, 59>> ]

\* the decimal digits of a natural number, as character codes
RECURSIVE Digits(_)
Digits(n) ==
  IF n < 10 THEN <<48 + n>> ELSE Append(Digits(n \div 10), 48 + (n % 10))

\* the digits of the fraction r / d (0 <= r < d) behind the decimal point
RECURSIVE FractionDigits(_, _)
FractionDigits(r, d) ==
  IF r = 0 THEN <<>>
  ELSE <<48 + ((10 * r) \div d)>> \o FractionDigits((10 * r) % d, d)

\* a fraction in lowest terms has at most six digits behind the decimal
\* point exactly when its denominator divides ExactScale
ExactScale == 1000000

\* String(value) for a number: the decimal rendering.  The fractional part
\* is rendered digit by digit when it has at most six digits; otherwise
\* the code -1 stands for the digits of the shortest rendering of the
\* double.
numberToString(value) ==
  LET n == value.v[1]
      d == value.v[2]
      whole == Abs(n) \div d
      rest == Abs(n) % d
  IN (IF n < 0 THEN <<45>> ELSE <<>>)
       \o Digits(whole)
       \o (IF rest = 0 THEN <<>>
           ELSE IF ExactScale % d = 0 THEN <<46>> \o FractionDigits(rest, d)
           ELSE <<46, -1>>)

\* the text of Math.round(1 / value) for a number value: Infinity for 0;
\* Math.round rounds a half towards +Infinity
roundedReciprocal(value) ==
  LET n == value.v[1]
      d == value.v[2]
      q == Abs(n)
      whole == d \div q
      r == d % q
      rounded == IF n > 0
                 THEN whole + (IF r >= q - r THEN 1 ELSE 0)
                 ELSE whole + (IF r > q - r THEN 1 ELSE 0)
  IN IF n = 0 THEN Literal.Infinity
     ELSE (IF n < 0 /\ rounded > 0 THEN <<45>> ELSE <<>>) \o Digits(rounded)

\* const data: ExifData = {}, with the fields parseExif assigns
EmptyExifData ==
  [f \in {"make", "model", "dateTime", "dateTimeOriginal", "colorSpace",
          "focalLength", "fNumber", "exposureTime", "iso", "meteringMode",
          "exposureProgram"} |-> Undefined]

\* one 12-byte IFD entry at currentOffset, with its value: read from the
\* offset field when count * tagSize <= 4, from 6 + valueOffset otherwise
ifdEntry(bytes, currentOffset, littleEndian) ==
  LET tag == readUint16(bytes, currentOffset, littleEndian)
      type == readUint16(bytes, currentOffset + 2, littleEndian)
      count == readUint32(bytes, currentOffset + 4, littleEndian)
      valueOffset == readUint32(bytes, currentOffset + 8, littleEndian)
      \* count * tagSize <= 4, tagSize one of 1, 2, 4, 8
      inline == count <= 0 \/ (count <= 4 /\ count * getTypeSize(type) <= 4)
  IN [tag |-> tag, type |-> type, count |-> count,
      valueOffset |-> valueOffset,
      value |->
        IF inline
        THEN readValue(bytes, currentOffset + 8, type, count,
                       littleEndian, 6)
        ELSE readValue(bytes, 6 + valueOffset, type, count,
                       littleEndian, 6)]

\* if (!data.field) data.field = value
assignIfFalsy(data, field, value) ==
  IF Falsy(data[field]) THEN [data EXCEPT ![field] = value] ELSE data

\* the switch of parseIFD
mapPrimaryTag(data, entry) ==
  CASE entry.tag = TagMake -> assignIfFalsy(data, "make", entry.value)
    [] entry.tag = TagModel -> assignIfFalsy(data, "model", entry.value)
    [] entry.tag = TagDateTime ->
         assignIfFalsy(data, "dateTime", entry.value)
    [] entry.tag = TagDateTimeOriginal ->
         assignIfFalsy(data, "dateTimeOriginal", entry.value)
    [] entry.tag = TagColorSpace ->
         IF entry.value.kind = "number"
         THEN assignIfFalsy(data, "colorSpace",
                Js("string",
                   IF entry.value = Fraction(1, 1) THEN Literal.sRGB
                   ELSE IF entry.value = Fraction(65535, 1)
                   THEN Literal.Uncalibrated
                   ELSE Literal.RGB))
         ELSE data
    [] OTHER -> data

\* value < 1 ? `1/${Math.round(1 / value)}` : `${value}`
exposureTimeText(value) ==
  IF value.v[1] < value.v[2]
  THEN Js("string", Literal.oneSlash \o roundedReciprocal(value))
  ELSE Js("string", numberToString(value))

\* TABLE[value] || `${prefix}${value}`
nameOrNumbered(table, prefix, value) ==
  IF value.v[2] = 1 /\ value.v[1] \in DOMAIN table
  THEN Js("string", table[value.v[1]])
  ELSE Js("string", prefix \o numberToString(value))

\* the switch of parseExifSubIFD
mapSubTag(data, entry) ==
  IF entry.value.kind # "number" THEN data
  ELSE
    CASE entry.tag = TagFocalLength ->
           assignIfFalsy(data, "focalLength",
                         Js("string",
                            numberToString(entry.value) \o Literal.mm))
      [] entry.tag = TagFNumber ->
           assignIfFalsy(data, "fNumber",
                         Js("string",
                            Literal.fSlash \o numberToString(entry.value)))
      [] entry.tag = TagExposureTime ->
           assignIfFalsy(data, "exposureTime",
                         exposureTimeText(entry.value))
      [] entry.tag = TagISOSpeedRatings ->
           IF data.iso = Undefined
           THEN [data EXCEPT !.iso = entry.value] ELSE data
      [] entry.tag = TagMeteringMode ->
           assignIfFalsy(data, "meteringMode",
                         nameOrNumbered(METERING_MODES, Literal.Mode,
                                        entry.value))
      [] entry.tag = TagExposureProgram ->
           assignIfFalsy(data, "exposureProgram",
                         nameOrNumbered(EXPOSURE_PROGRAMS, Literal.Program,
                                        entry.value))
      [] OTHER -> data

(* The state of a run of parseExif is a record: data, the field map; sub, *)
(* the pointer to the EXIF sub-IFD (found is FALSE while it is null);     *)
(* and, for the properties, history, the field map after each IFD entry   *)
(* in the order the entries were processed.                               *)

\* the loop over the entries of the primary IFD
RECURSIVE primaryEntries(_, _, _, _, _, _)
primaryEntries(bytes, littleEndian, i, entryCount, currentOffset, run) ==
  IF ~(i < entryCount /\ currentOffset + 12 <= Len(bytes)) THEN run
  ELSE LET entry == ifdEntry(bytes, currentOffset, littleEndian)
           data == mapPrimaryTag(run.data, entry)
           sub == IF entry.tag = TagExifSubIFD
                  THEN [found |-> TRUE, at |-> 6 + entry.valueOffset]
                  ELSE run.sub
       IN primaryEntries(bytes, littleEndian, i + 1, entryCount,
                         currentOffset + 12,
                         [data |-> data, sub |-> sub,
                          history |-> Append(run.history, data)])

\* the loop over the entries of the EXIF sub-IFD
RECURSIVE subEntries(_, _, _, _, _, _)
subEntries(bytes, littleEndian, i, entryCount, currentOffset, run) ==
  IF ~(i < entryCount /\ currentOffset + 12 <= Len(bytes)) THEN run
  ELSE LET entry == ifdEntry(bytes, currentOffset, littleEndian)
           data == mapSubTag(run.data, entry)
       IN subEntries(bytes, littleEndian, i + 1, entryCount,
                     currentOffset + 12,
                     [data |-> data, sub |-> run.sub,
                      history |-> Append(run.history, data)])

parseExifSubIFD(bytes, littleEndian, ifdOffset, run) ==
  IF ifdOffset + 2 > Len(bytes) THEN run
  ELSE subEntries(bytes, littleEndian, 0,
                  readUint16(bytes, ifdOffset, littleEndian),
                  ifdOffset + 2, run)

parseIFD(bytes, littleEndian, ifdOffset, run) ==
  IF ifdOffset + 2 > Len(bytes) THEN run
  ELSE LET after == primaryEntries(bytes, littleEndian, 0,
                                   readUint16(bytes, ifdOffset,
                                              littleEndian),
                                   ifdOffset + 2, run)
       IN IF after.sub.found
          THEN parseExifSubIFD(bytes, littleEndian, after.sub.at, after)
          ELSE after

\* parseExif: the run; the map returned is its data
parseExif(exifSegment) ==
  LET empty == [data |-> EmptyExifData,
                sub |-> [found |-> FALSE, at |-> 0], history |-> <<>>]
      \* header.startsWith('Exif')
      headerIsExif == startsWith(subarray(exifSegment, 0, 6), Literal.Exif)
      \* byteOrder === 'II'
      isLittleEndian == subarray(exifSegment, 6, 8) = Literal.II
  IN IF Len(exifSegment) < 6 THEN empty
     ELSE IF ~headerIsExif THEN empty
     ELSE IF 8 > Len(exifSegment) THEN empty
     ELSE IF 10 > Len(exifSegment) THEN empty
     ELSE IF readUint16(exifSegment, 8, isLittleEndian) # 42 THEN empty
     ELSE IF 14 > Len(exifSegment) THEN empty
     ELSE parseIFD(exifSegment, isLittleEndian,
                   6 + readUint32(exifSegment, 10, isLittleEndian), empty)

(* The segments handed to parseExif.  A segment (the variable rendered)   *)
(* is put together from a header, a TIFF header, the entry count of the   *)
(* primary IFD, its 12-byte entries, and the next-IFD offset followed by  *)
(* the value area.  The decoder may be called on every prefix.            *)

\* most entries of the primary IFD of a segment
MaxEntries == 2

\* the pieces that may follow a segment built so far.  Fields are written
\* little-endian behind II and big-endian otherwise; an entry holds its
\* value as raw bytes of the offset field, as a SHORT or a LONG in the
\* offset field, or in the value area behind the IFD.
ExifPieces(segment) ==
  LET le == Len(segment) >= 8 /\ SubSeq(segment, 7, 8) = Literal.II
      e16(v) == IF le THEN <<v % 256, v \div 256>>
                ELSE <<v \div 256, v % 256>>
      e32(v) == IF le
                THEN <<v % 256, (v \div 256) % 256, (v \div 65536) % 256,
                       v \div 16777216>>
                ELSE bigEndian32(v)
      count == IF le THEN segment[15] + 256 * segment[16]
               ELSE 256 * segment[15] + segment[16]
      \* offset (from the TIFF header) of the value area
      area == 8 + 2 + 12 * count + 4
      entry(tag, type, n, field) == e16(tag) \o e16(type) \o e32(n) \o field
  IN IF segment = <<>>
     THEN { Literal.Exif \o <<0, 0>>,
            Literal.Exif \o <<1, 2>>,          \* not followed by two NULs
            <<69, 120, 105, 103, 0, 0>>,       \* Exig
            <<69, 120, 105>> }                 \* shorter than the header
     ELSE IF Len(segment) = 6
     THEN \* byte-order marker, magic number, offset of the primary IFD
          { Literal.II \o <<42, 0>> \o <<8, 0, 0, 0>>,
            Literal.MM \o <<0, 42>> \o <<0, 0, 0, 8>>,
            <<90, 90>> \o <<0, 42>> \o <<0, 0, 0, 8>>,  \* ZZ, no byte order
            Literal.II \o <<0, 42>> \o <<8, 0, 0, 0>>,  \* 42 in the other order
            Literal.MM \o <<0, 43>> }                   \* wrong magic, cut
     ELSE IF Len(segment) = 14
     THEN { e16(n) : n \in 1..MaxEntries }
     ELSE IF Len(segment) < 16 THEN {}
     ELSE IF Len(segment) < 16 + 12 * count
     THEN { entry(TagMake, 2, 6, e32(area)),                  \* in the area
            entry(TagMake, 2, 1, <<0, 0, 0, 0>>),             \* ''
            entry(TagMake, 2, 3, <<72, 105, 0, 0>>),          \* Hi
            entry(TagModel, 3, 1, e16(0) \o <<0, 0>>),        \* 0
            entry(TagModel, 2, 3, <<77, 49, 0, 0>>),          \* M1
            entry(TagDateTime, 7, 1, <<9, 0, 0, 0>>),         \* UNDEFINED
            entry(TagDateTimeOriginal, 2, 3, <<68, 49, 0, 0>>),   \* D1
            entry(TagColorSpace, 3, 1, e16(1) \o <<0, 0>>),
            entry(TagExifSubIFD, 4, 1, e32(8)),     \* the primary IFD again
            entry(TagISOSpeedRatings, 3, 1, e16(0) \o <<0, 0>>),
            entry(TagISOSpeedRatings, 3, 1, e16(100) \o <<0, 0>>),
            entry(TagFocalLength, 5, 1, e32(area)),
            entry(TagExposureTime, 5, 1, e32(area)),
            entry(TagMeteringMode, 3, 1, e16(2) \o <<0, 0>>),
            entry(TagExposureProgram, 3, 1, e16(9) \o <<0, 0>>) }
     ELSE IF Len(segment) = 16 + 12 * count
     THEN \* the next-IFD offset and the value area
          { <<0, 0, 0, 0>> \o <<67, 97, 110, 111, 110, 0>>,   \* Canon
            <<0, 0, 0, 0>> \o e32(1) \o e32(250),             \* 1/250
            <<0, 0, 0, 0>> \o e32(5) \o e32(2),              \* 5/2
            <<0, 0, 0, 0>> \o e32(1) \o e32(0),              \* 1/0
            <<0, 0, 0, 0>> \o e32(0) \o e32(5) }             \* 0/5
     ELSE {}

AppendExifPiece ==
  /\ phase = "input"
  /\ \E piece \in ExifPieces(rendered) : rendered' = rendered \o piece
  /\ UNCHANGED <<original, phase, status, downloads, merged, locals>>

\* a call of parseExif(exifSegment); locals keeps the run
CallParseExif ==
  /\ phase = "input"
  /\ merged' = [outcome |-> "return", data |-> parseExif(rendered).data]
  /\ locals' = parseExif(rendered)
  /\ phase' = "done"
  /\ UNCHANGED <<original, rendered, status, downloads>>

ExifNext ==
  \/ AppendExifPiece
  \/ CallParseExif

SpecExif == Init /\ [][ExifNext]_vars

----------------------------------------------------------------------------
(* The IPTC decoder (src/src/iptc-parser.ts).                              *)

\* IPTC_RECORDS
RecordObjectName == 5
RecordInstructions == 40
RecordKeywords == 25
RecordDateCreated == 55
RecordTimeCreated == 60
RecordByline == 80
RecordSubLocation == 92
RecordHeadline == 105
RecordCredit == 110
RecordContact == 116
RecordCaption == 120
RecordCity == 90
RecordProvinceState == 95
RecordCountry == 101

IPTC_DATASET_APPLICATION == 2

\* the IIM record marker 0x1C
IptcMarker == 28

\* the resource ID of the IPTC block, 0x0404
IptcResourceId == 1028

\* the length below which parseIptc returns the empty map
MinIptcLength == 14

\* decodeUtf8: the manual decoding, as a sequence of character codes.  On
\* well-formed sequences of one to three bytes TextDecoder('utf-8') yields
\* the same characters.
RECURSIVE decodeUtf8(_, _)
decodeUtf8(bytes, i) ==
  IF ~(i < Len(bytes)) THEN <<>>
  ELSE LET byte == bytes[i + 1]
       IN IF byte < 128 THEN <<byte>> \o decodeUtf8(bytes, i + 1)
          ELSE IF byte >= 192 /\ byte <= 223
          THEN IF i + 1 < Len(bytes)
               THEN <<(byte % 32) * 64 + (bytes[i + 2] % 64)>>
                      \o decodeUtf8(bytes, i + 2)
               ELSE decodeUtf8(bytes, i + 1)
          ELSE IF byte >= 224 /\ byte <= 239
          THEN IF i + 2 < Len(bytes)
               THEN <<(byte % 16) * 4096 + (bytes[i + 2] % 64) * 64
                        + (bytes[i + 3] % 64)>>
                      \o decodeUtf8(bytes, i + 3)
               ELSE decodeUtf8(bytes, i + 1)
          ELSE decodeUtf8(bytes, i + 1)

\* the white space and line terminators String.prototype.trim removes
WhiteSpace ==
  {9, 10, 11, 12, 13, 32, 160, 5760, 8232, 8233, 8239, 8287, 12288, 65279}
    \cup (8192..8202)

\* .trim()
trim(chars) ==
  LET kept == {k \in 1..Len(chars) : chars[k] \notin WhiteSpace}
  IN IF kept = {} THEN <<>>
     ELSE SubSeq(chars,
                 CHOOSE k \in kept : \A m \in kept : k <= m,
                 CHOOSE k \in kept : \A m \in kept : k >= m)

\* decodeUtf8(bytes).replace(/\0/g, '').trim()
recordValue(bytes) ==
  trim(SelectSeq(decodeUtf8(bytes, 0), LAMBDA c : c # 0))

\* const data: IptcData = {}, with the fields of IptcData
EmptyIptcData ==
  [f \in {"headline", "credit", "caption", "keywords", "city",
          "stateProvince", "country", "instructions", "byline", "contact",
          "subLocation", "dateCreated", "timeCreated"} |-> Undefined]

\* the Keywords case pushing every value
pushKeyword_NoDedup(data, value) ==
  LET list == IF Falsy(data.keywords) THEN <<>> ELSE data.keywords.v
  IN [data EXCEPT !.keywords = Js("array", Append(list, Js("string", value)))]

\* the Keywords case: create the array, push the value unless included
pushKeyword(data, value) ==
  LET list == IF Falsy(data.keywords) THEN <<>> ELSE data.keywords.v
  IN [data EXCEPT !.keywords =
        Js("array",
           IF \E k \in 1..Len(list) : list[k] = Js("string", value)
           THEN list ELSE Append(list, Js("string", value)))]

\* the switch with an ObjectName case that assigns the headline always
setRecord_ObjectNameOverwrites(data, recordNumber, value) ==
  CASE recordNumber \in {RecordHeadline, RecordObjectName} ->
         [data EXCEPT !.headline = Js("string", value)]
    [] recordNumber = RecordKeywords -> pushKeyword(data, value)
    [] recordNumber = RecordCredit ->
         assignIfFalsy(data, "credit", Js("string", value))
    [] OTHER -> data

\* switch (recordNumber), for a non-empty value
setRecord(data, recordNumber, value) ==
  CASE recordNumber = RecordHeadline ->
         [data EXCEPT !.headline = Js("string", value)]
    [] recordNumber = RecordObjectName ->
         assignIfFalsy(data, "headline", Js("string", value))
    [] recordNumber = RecordInstructions ->
         assignIfFalsy(data, "instructions", Js("string", value))
    [] recordNumber = RecordDateCreated ->
         assignIfFalsy(data, "dateCreated", Js("string", value))
    [] recordNumber = RecordTimeCreated ->
         assignIfFalsy(data, "timeCreated", Js("string", value))
    [] recordNumber = RecordByline ->
         assignIfFalsy(data, "byline", Js("string", value))
    [] recordNumber = RecordContact ->
         assignIfFalsy(data, "contact", Js("string", value))
    [] recordNumber = RecordSubLocation ->
         assignIfFalsy(data, "subLocation", Js("string", value))
    [] recordNumber = RecordCredit ->
         assignIfFalsy(data, "credit", Js("string", value))
    [] recordNumber = RecordCaption ->
         assignIfFalsy(data, "caption", Js("string", value))
    [] recordNumber = RecordKeywords -> pushKeyword(data, value)
    [] recordNumber = RecordCity ->
         assignIfFalsy(data, "city", Js("string", value))
    [] recordNumber = RecordProvinceState ->
         assignIfFalsy(data, "stateProvince", Js("string", value))
    [] recordNumber = RecordCountry ->
         assignIfFalsy(data, "country", Js("string", value))
    [] OTHER -> data

(* The state of a run of parseIptc is a record: data, the field map, and, *)
(* for the properties, history, the records decoded to a non-empty value:  *)
(* the pass, the offset in the scanned buffer, the record number, the      *)
(* value and the field map after the record.                               *)

\* (bytes[offset + 3] << 8) | bytes[offset + 4]
recordSize(bytes, offset) ==
  256 * ToInt(At(bytes, offset + 3)) + ToInt(At(bytes, offset + 4))

\* dataSize > 0 && dataSize < 65536 && dataStart + dataSize <= length
validSize(bytes, offset) ==
  /\ recordSize(bytes, offset) > 0
  /\ recordSize(bytes, offset) < 65536
  /\ offset + 5 + recordSize(bytes, offset) <= Len(bytes)

\* the record of a valid size at offset is decoded and, its value not
\* empty, applied
applyRecord(run, pass, bytes, offset) ==
  LET value == recordValue(subarray(bytes, offset + 5,
                                    offset + 5 + recordSize(bytes, offset)))
      recordNumber == At(bytes, offset + 2)
      data == setRecord(run.data, recordNumber, value)
  IN IF value = <<>> THEN run
     ELSE [data |-> data,
           history |->
             Append(run.history,
                    [pass |-> pass, offset |-> offset,
                     recordNumber |-> recordNumber, value |-> value,
                     data |-> data])]

\* parseIptcDataBlock: the scan of the data of an 8BIM block, from offset
RECURSIVE parseIptcDataBlock(_, _, _)
parseIptcDataBlock(iptcData, offset, run) ==
  IF ~(offset < Len(iptcData) - 5) THEN run
  ELSE IF At(iptcData, offset) # IptcMarker
  THEN parseIptcDataBlock(iptcData, offset + 1, run)
  ELSE IF At(iptcData, offset + 1) # IPTC_DATASET_APPLICATION
  THEN parseIptcDataBlock(iptcData, offset + 1, run)
  ELSE IF offset + 5 > Len(iptcData) THEN run
  ELSE IF validSize(iptcData, offset)
  THEN parseIptcDataBlock(iptcData,
                          offset + 5 + recordSize(iptcData, offset),
                          applyRecord(run, "block", iptcData, offset))
  ELSE parseIptcDataBlock(iptcData, offset + 1, run)

\* the direct scan of the segment: behind a dataset-2 marker the scan
\* continues at dataStart + dataSize, the size valid or not
RECURSIVE directScan(_, _, _)
directScan(iptcSegment, offset, run) ==
  IF ~(offset < Len(iptcSegment) - 5) THEN run
  ELSE IF At(iptcSegment, offset) # IptcMarker
  THEN directScan(iptcSegment, offset + 1, run)
  ELSE IF At(iptcSegment, offset + 1) # IPTC_DATASET_APPLICATION
  THEN directScan(iptcSegment, offset + 1, run)
  ELSE directScan(iptcSegment,
                  offset + 5 + recordSize(iptcSegment, offset),
                  IF validSize(iptcSegment, offset)
                  THEN applyRecord(run, "direct", iptcSegment, offset)
                  ELSE run)

\* the body of the 8BIM loop at index i
blockAt(iptcSegment, i, run) ==
  LET nameLen == At(iptcSegment, i + 6)
      \* offset of the size field: behind the resource ID and the Pascal
      \* string of the name, padded to an even length
      dataOffset ==
        IF ~(i + 6 < Len(iptcSegment)) THEN i + 6
        ELSE IF nameLen > 0
        THEN i + 7 + nameLen + (IF nameLen % 2 = 0 THEN 1 ELSE 0)
        ELSE i + 8
      dataSize == int32At(iptcSegment, dataOffset)
  IN IF /\ subarray(iptcSegment, i, i + 4) = Literal.BIM
        /\ i + 6 <= Len(iptcSegment)
        /\ 256 * ToInt(At(iptcSegment, i + 4)) + ToInt(At(iptcSegment, i + 5))
             = IptcResourceId
        /\ dataOffset + 4 <= Len(iptcSegment)
        /\ dataOffset + 4 + dataSize <= Len(iptcSegment)
     THEN parseIptcDataBlock(subarray(iptcSegment, dataOffset + 4,
                                      dataOffset + 4 + dataSize), 0, run)
     ELSE run

\* for (let i = searchStart; i < iptcSegment.length - 8; i++)
RECURSIVE resourceScan(_, _, _)
resourceScan(iptcSegment, i, run) ==
  IF ~(i < Len(iptcSegment) - 8) THEN run
  ELSE resourceScan(iptcSegment, i + 1, blockAt(iptcSegment, i, run))

\* parseIptc: the run; the map returned is its data
parseIptc(iptcSegment) ==
  LET empty == [data |-> EmptyIptcData, history |-> <<>>]
      searchStart ==
        IF startsWith(subarray(iptcSegment, 0, 14), Literal.Photoshop)
        THEN 14 ELSE 0
  IN IF Len(iptcSegment) < MinIptcLength THEN empty
     ELSE directScan(iptcSegment, searchStart,
                     resourceScan(iptcSegment, searchStart, empty))

(* The segments handed to parseIptc.  A segment (the variable rendered)   *)
(* is an optional Photoshop header followed by IIM records and 8BIM       *)
(* resource blocks.                                                        *)

\* longest segment handed to parseIptc, in bytes
MaxIptcLen == 34

\* the pieces that may follow a segment built so far
IptcPieces(segment) ==
  LET \* the record {0x1C, dataset, record number, 16-bit size, data}
      iimRecord(dataset, recordNumber, data) ==
        <<IptcMarker, dataset, recordNumber,
          Len(data) \div 256, Len(data) % 256>> \o data
      \* an 8BIM resource block with the IPTC resource ID, an empty name
      \* and the payload
      resourceBlock(payload) ==
        Literal.BIM \o <<4, 4>> \o <<0, 0>> \o bigEndian32(Len(payload))
          \o payload
      \* records of plain text
      plain ==
        { iimRecord(2, RecordHeadline, <<72, 101, 108, 108, 111>>),  \* Hello
          iimRecord(2, RecordHeadline, <<72, 105>>),                 \* Hi
          iimRecord(2, RecordObjectName, <<79, 110>>),               \* On
          iimRecord(2, RecordKeywords, <<99, 97, 116>>),             \* cat
          iimRecord(2, RecordKeywords, <<100, 111, 103>>),           \* dog
          iimRecord(2, RecordCredit, <<66>>) }                       \* B
      \* the header of a record whose declared size exceeds every segment
      overlong == <<IptcMarker, 2, RecordCaption, 0, 200>>
  IN plain
       \cup { iimRecord(2, RecordCredit, <<32, 65, 0>>),    \* blank, A, NUL
              iimRecord(2, RecordCaption, <<195, 169>>),    \* e acute, UTF-8
              iimRecord(1, 90, <<65>>),                     \* dataset 1
              iimRecord(2, RecordCaption, <<>>),            \* size 0
              overlong,
              resourceBlock(overlong
                              \o iimRecord(2, RecordHeadline, <<72, 105>>)) }
       \cup { resourceBlock(r) : r \in plain }
       \cup { resourceBlock(r \o q) : r \in plain, q \in plain }
       \cup (IF segment = <<>> THEN {Literal.Photoshop \o <<0>>} ELSE {})

AppendIptcPiece ==
  /\ phase = "input"
  /\ \E piece \in IptcPieces(rendered) :
       /\ Len(rendered) + Len(piece) <= MaxIptcLen
       /\ rendered' = rendered \o piece
  /\ UNCHANGED <<original, phase, status, downloads, merged, locals>>

\* a call of parseIptc(iptcSegment); locals keeps the run
CallParseIptc ==
  /\ phase = "input"
  /\ merged' = [outcome |-> "return", data |-> parseIptc(rendered).data]
  /\ locals' = parseIptc(rendered)
  /\ phase' = "done"
  /\ UNCHANGED <<original, rendered, status, downloads>>

IptcNext ==
  \/ AppendIptcPiece
  \/ CallParseIptc

SpecIptc == Init /\ [][IptcNext]_vars

----------------------------------------------------------------------------
(* The segment scan of the metadata aggregator, and the same source image  *)
(* handed to the aggregator and to the segment parser of the merge.        *)

MaxAppLen == 16

\* extractAllAppSegments; scan is its while loop
extractAllAppSegments(bytes, marker) ==
  LET RECURSIVE scan(_, _)
      scan(i, segments) ==
        IF i + 4 > Len(bytes) THEN segments
        ELSE IF At(bytes, i) # xFF THEN scan(i + 1, segments)
        ELSE LET m == At(bytes, i + 1)
                 j == i + 2
                 len == At(bytes, j) * 256 + At(bytes, j + 1)
                 start == j + 2
                 end == j + len
             IN IF m = SOS \/ m = EOI THEN segments
                ELSE IF m = TEM \/ (m >= RST0 /\ m <= RST7)
                THEN scan(j, segments)
                ELSE IF j + 2 > Len(bytes) THEN segments
                ELSE IF end > Len(bytes) THEN segments
                ELSE scan(end,
                          IF m = marker
                          THEN Append(segments, subarray(bytes, start, end))
                          ELSE segments)
  IN IF Len(bytes) < 2 \/ ~startsWithSoi(bytes) THEN <<>>
     ELSE scan(2, <<>>)

\* what follows the SOI of a source image
AppPieces ==
  { <<0>>,                          \* a byte that is not FF
    <<xFF, SOS>>,
    <<xFF, RST0>>,
    <<xFF, APP1, 0, 3, 69>>,        \* one-byte payloads
    <<xFF, APP2, 0, 3, 9>>,
    <<xFF, APP13, 0, 3, 28>>,
    <<xFF, APP1, 0, 2>>,            \* empty payload
    <<xFF, APP1, 0, 0>>,            \* declared length 0
    <<xFF, APP13, 0, 1>>,           \* declared length 1
    <<xFF, APP1, 0, 6, 69>>,        \* payload is cut, or is what follows
    <<xFF, APP2, 0, 5, 9>>,
    <<xFF, 219, 0, 3, 7>> }         \* DQT

AppendAppPiece ==
  /\ phase = "input"
  /\ \E p \in (IF original = <<>> THEN JpegStarts ELSE AppPieces) :
       /\ original = <<>> \/ startsWithSoi(original)
       /\ Len(original) + Len(p) <= MaxAppLen
       /\ original' = original \o p
  /\ UNCHANGED <<rendered, phase, status, downloads, merged, locals>>

\* The source image goes to the aggregator, which scans it once per marker
\* (merged holds the three results), and to the merge, whose parser throws
\* on a buffer without SOI.
CallAggregateAndParse ==
  /\ phase = "input"
  /\ merged' = [outcome |-> "return", bytes |-> <<>>,
                payloads |-> [m \in {APP1, APP2, APP13} |->
                                extractAllAppSegments(original, m)]]
  /\ locals' = [origSegs |-> parseJpegSegments(original),
                rendSegs |-> NotParsed]
  /\ phase' = IF parseJpegSegments(original).threw
              THEN "threw" ELSE "parsed"
  /\ UNCHANGED <<original, rendered, status, downloads>>

AppNext ==
  \/ AppendAppPiece
  \/ CallAggregateAndParse

SpecApp == Init /\ [][AppNext]_vars

----------------------------------------------------------------------------
(* The XMP extractor of the plugin: parseXmpBasic, its search for the      *)
(* embedded document and its keywords.  Texts are sequences of code units. *)

MaxXmpLen == 110
MaxItems == 2


\* A value that the code computes once and then reads many times (a const,
\* a parameter) is bound here as the element of a one-element set, which
\* is evaluated once: CHOOSE r \in {F(x) : x \in {value}} : TRUE is F(value).

\* The first 1-based position at or after from where the pattern occurs in
\* the text, or 0.  Letters are compared without their case: the
\* expressions carry the flag i.
indexOf(text, pattern, from) ==
  LET foldCase(c) == IF c >= 65 /\ c <= 90 THEN c + 32 ELSE c
      first(hits) == IF hits = {} THEN 0
                     ELSE CHOOSE i \in hits : \A j \in hits : i <= j
  IN CHOOSE r \in
       {first({i \in Max(start, 1)..(Len(t) - Len(p) + 1) :
                 \A k \in 1..Len(p) : foldCase(t[i + k - 1]) = foldCase(p[k])})
          : t \in {text}, p \in {pattern}, start \in {from}} : TRUE

\* .replace(/pattern/g, replacement) for a literal pattern, case kept
RECURSIVE replaceAll(_, _, _)
replaceAll(text, pattern, replacement) ==
  LET replaced(t, at) ==
        IF at = 0 THEN t
        ELSE SubSeq(t, 1, at - 1) \o replacement
               \o replaceAll(SubSeq(t, at + Len(pattern), Len(t)),
                             pattern, replacement)
      first(hits) == IF hits = {} THEN 0
                     ELSE CHOOSE i \in hits : \A j \in hits : i <= j
  IN CHOOSE r \in
       {replaced(t, first({i \in 1..(Len(t) - Len(pattern) + 1) :
                             SubSeq(t, i, i + Len(pattern) - 1) = pattern}))
          : t \in {text}} : TRUE

\* .replace(/<[^>]+>/g, ''): a < is removed with what follows it up to the
\* next >, when at least one character lies between them
RECURSIVE stripTags(_)
stripTags(text) ==
  LET stripped(t, at) ==
        IF at = 0 THEN t
        ELSE SubSeq(t, 1, at - 1)
               \o stripTags(SubSeq(t, indexOf(t, <<62>>, at + 2) + 1, Len(t)))
      first(opens) == IF opens = {} THEN 0
                      ELSE CHOOSE i \in opens : \A j \in opens : i <= j
  IN CHOOSE r \in
       {stripped(t, first({i \in 1..(Len(t) - 1) :
                             /\ t[i] = 60
                             /\ t[i + 1] # 62
                             /\ indexOf(t, <<62>>, i + 2) > 0}))
          : t \in {text}} : TRUE

\* The match of /<rdf:li[^>]*>(.*?)<\/rdf:li>/i at or after from: where it
\* ends, what it captures and the keyword made of the capture; found is
\* FALSE when there is none.
liMatch(text, from) ==
  LET keywordOf(capture) ==
        replaceAll(replaceAll(replaceAll(stripTags(trim(capture)),
                                         Literal.lt, <<60>>),
                              Literal.gt, <<62>>),
                   Literal.amp, <<38>>)
      matched(close, end) ==
        IF end = 0
        THEN [found |-> FALSE, capture |-> <<>>, keyword |-> <<>>,
              next |-> 0]
        ELSE CHOOSE m \in
               {[found |-> TRUE, capture |-> capture,
                 keyword |-> keywordOf(capture),
                 next |-> end + Len(Literal.liEnd)]
                  : capture \in {SubSeq(text, close + 1, end - 1)}} : TRUE
      closed(close) ==
        CHOOSE m \in
          {matched(close, end)
             : end \in {IF close = 0 THEN 0
                        ELSE indexOf(text, Literal.liEnd, close + 1)}} : TRUE
      opened(open) ==
        CHOOSE m \in
          {closed(close)
             : close \in {IF open = 0 THEN 0
                          ELSE indexOf(text, <<62>>,
                                       open + Len(Literal.li))}} : TRUE
  IN CHOOSE m \in
       {opened(open) : open \in {indexOf(text, Literal.li, from)}} : TRUE

\* the loop over matchAll(/<rdf:li[^>]*>(.*?)<\/rdf:li>/gi)
RECURSIVE keywordsOfList(_, _)
keywordsOfList(text, from) ==
  CHOOSE keywords \in
    {IF ~m.found THEN <<>>
     ELSE (IF m.capture # <<>> /\ m.keyword # <<>>
           THEN <<m.keyword>> ELSE <<>>)
          \o keywordsOfList(t, m.next)
       : t \in {text}, m \in {liMatch(text, from)}} : TRUE

\* The fallback: the matches of
\* /<dc:subject[^>]*>.*?<rdf:li[^>]*>(.*?)<\/rdf:li>/gis, each mapped to
\* its cleaned capture, the empty ones filtered out; matched tells whether
\* there was a match.
RECURSIVE simpleKeywords(_, _)
simpleKeywords(text, from) ==
  LET found(m) ==
        IF ~m.found THEN [matched |-> FALSE, keywords |-> <<>>]
        ELSE [matched |-> TRUE,
              keywords |-> (IF m.keyword # <<>> THEN <<m.keyword>>
                            ELSE <<>>)
                           \o simpleKeywords(text, m.next).keywords]
      closed(close) ==
        IF close = 0 THEN [matched |-> FALSE, keywords |-> <<>>]
        ELSE CHOOSE r \in
               {found(m) : m \in {liMatch(text, close + 1)}} : TRUE
      subjectAt(subject) ==
        CHOOSE r \in
          {closed(close)
             : close \in {IF subject = 0 THEN 0
                          ELSE indexOf(text, <<62>>,
                                       subject + Len(Literal.dcSubject))}}
          : TRUE
  IN CHOOSE r \in
       {subjectAt(subject)
          : subject \in {indexOf(text, Literal.dcSubject, from)}} : TRUE

\* The info object parseXmpBasic returns and the locals of the run.  The
\* keywords field is Undefined when it is not assigned.  hasTextDecoder is
\* the environment: with TextDecoder the bytes are decoded as UTF-8 (the
\* sequences of one and two bytes are modelled), without it each byte is a
\* code unit.
parseXmpBasic(xmpSegment, hasTextDecoder) ==
  LET first(hits, none) == IF hits = {} THEN none
                           ELSE CHOOSE i \in hits : \A j \in hits : i <= j
      \* TextDecoder('utf-8', {fatal: false}): a byte below 128 is a code
      \* unit, a two-byte sequence is its code point, and any other byte
      \* that starts no such sequence is U+FFFD
      unitAt(xmlBytes, k) ==
        IF k > 1 /\ xmlBytes[k] \in 128..191 /\ xmlBytes[k - 1] \in 194..223
        THEN NoByte
        ELSE IF xmlBytes[k] < 128 THEN xmlBytes[k]
        ELSE IF xmlBytes[k] \in 194..223 /\ k < Len(xmlBytes)
                /\ xmlBytes[k + 1] \in 128..191
        THEN (xmlBytes[k] % 32) * 64 + (xmlBytes[k + 1] % 64)
        ELSE 65533
      decode(xmlBytes) ==
        IF hasTextDecoder
        THEN SelectSeq([k \in 1..Len(xmlBytes) |-> unitAt(xmlBytes, k)],
                       LAMBDA unit : unit # NoByte)
        ELSE xmlBytes
      \* the match of /<dc:subject[^>]*>.*?<open>.*?<close>/is, or <<>>
      listFrom(text, open, close, list) ==
        CHOOSE match \in
          {IF end = 0 THEN <<>>
           ELSE SubSeq(text, indexOf(text, Literal.dcSubject, 1),
                       end + Len(close) - 1)
             : end \in {IF list = 0 THEN 0
                        ELSE indexOf(text, close, list + Len(open))}} : TRUE
      listMatch(text, open, close) ==
        CHOOSE match \in
          {listFrom(text, open, close, list)
             : list \in
                 {CHOOSE at \in
                    {IF tagEnd = 0 THEN 0
                     ELSE indexOf(text, open, tagEnd + 1)
                       : tagEnd \in
                           {CHOOSE gt \in
                              {IF subject = 0 THEN 0
                               ELSE indexOf(text, <<62>>,
                                      subject + Len(Literal.dcSubject))
                                 : subject \in
                                     {indexOf(text, Literal.dcSubject, 1)}}
                              : TRUE}}
                    : TRUE}} : TRUE
      keywordsIn(xmlText, keywordsMatch) ==
        IF keywordsMatch # <<>>
        THEN CHOOSE keywords \in
               {IF Len(keywordsArray) > 0
                THEN Js("array", keywordsArray) ELSE Undefined
                  : keywordsArray \in {keywordsOfList(keywordsMatch, 1)}}
               : TRUE
        ELSE CHOOSE keywords \in
               {IF simple.matched THEN Js("array", simple.keywords)
                ELSE Undefined
                  : simple \in {simpleKeywords(xmlText, 1)}} : TRUE
      read(xmlStart, xmlText) ==
        CHOOSE run \in
          {[info |-> [present |-> TRUE,
                      keywords |-> keywordsIn(xmlText, keywordsMatch)],
            xmlStart |-> xmlStart, xmlText |-> xmlText]
             : keywordsMatch \in
                 {CHOOSE match \in
                    {IF bagMatch # <<>> THEN bagMatch
                     ELSE listMatch(xmlText, Literal.seq, Literal.seqEnd)
                       : bagMatch \in {listMatch(xmlText, Literal.bag,
                                                 Literal.bagEnd)}} : TRUE}}
          : TRUE
      located(xmlStart) ==
        IF ~(xmlStart > 0)
        THEN [info |-> [present |-> TRUE, keywords |-> Undefined],
              xmlStart |-> xmlStart, xmlText |-> <<>>]
        ELSE CHOOSE run \in
               {read(xmlStart, xmlText)
                  : xmlText \in
                      {decode(xmlBytes)
                         : xmlBytes \in
                             {subarray(xmpSegment, xmlStart,
                                first({i \in xmlStart..(Len(xmpSegment) - 1)
                                         : At(xmpSegment, i) = 0},
                                      Len(xmpSegment)))}}} : TRUE
  IN CHOOSE run \in
       {located(xmlStart)
          : xmlStart \in
              {first({i \in 0..(Len(xmpSegment) - 5) :
                        subarray(xmpSegment, i, i + 4) = TextXmStart}, 0)}}
       : TRUE

\* What may follow in an XMP segment under construction: a header, then
\* the subject element, then its items, then its end and a terminator.
XmpPieces(segment) ==
  LET
      \* '<?xpacket?>'
      xpacket == <<60, 63, 120, 112, 97, 99, 107, 101, 116, 63, 62>>
      \* '<?xml?>'
      xmlDecl == <<60, 63, 120, 109, 108, 63, 62>>
      \* '<x:xmpmeta>'
      xmpmeta == <<60, 120, 58, 120, 109, 112, 109, 101, 116, 97, 62>>
      \* '<dc:subject><rdf:Bag>'
      subjectBag == <<60, 100, 99, 58, 115, 117, 98, 106, 101, 99, 116, 62,
        60, 114, 100, 102, 58, 66, 97, 103, 62>>
      \* '<dc:subject a="b"><RDF:SEQ>'
      subjectSeq == <<60, 100, 99, 58, 115, 117, 98, 106, 101, 99, 116, 32,
        97, 61, 34, 98, 34, 62, 60, 82, 68, 70, 58, 83, 69, 81, 62>>
      \* '<dc:subject>'
      subject == <<60, 100, 99, 58, 115, 117, 98, 106, 101, 99, 116, 62>>
      \* '<rdf:li>cat</rdf:li>'
      cat == <<60, 114, 100, 102, 58, 108, 105, 62, 99, 97, 116, 60, 47,
        114, 100, 102, 58, 108, 105, 62>>
      \* '<rdf:li>dog</rdf:li>'
      dog == <<60, 114, 100, 102, 58, 108, 105, 62, 100, 111, 103, 60, 47,
        114, 100, 102, 58, 108, 105, 62>>
      \* '<rdf:li x="1"> a&amp;<b>b</b> </rdf:li>'
      spaced == <<60, 114, 100, 102, 58, 108, 105, 32, 120, 61, 34, 49, 34,
        62, 32, 97, 38, 97, 109, 112, 59, 60, 98, 62, 98, 60, 47, 98, 62,
        32, 60, 47, 114, 100, 102, 58, 108, 105, 62>>
      \* '<rdf:li>é</rdf:li>'
      accent == <<60, 114, 100, 102, 58, 108, 105, 62, 195, 169, 60, 47,
        114, 100, 102, 58, 108, 105, 62>>
      \* '<rdf:li> </rdf:li>'
      blank == <<60, 114, 100, 102, 58, 108, 105, 62, 32, 60, 47, 114, 100,
        102, 58, 108, 105, 62>>
      \* '</dc:subject>'
      subjectEnd == <<60, 47, 100, 99, 58, 115, 117, 98, 106, 101, 99, 116,
        62>>
      has(piece) == indexOf(segment, piece, 1) > 0
      opened == has(Literal.dcSubject)
      closed == has(Literal.bagEnd) \/ has(Literal.seqEnd) \/ has(subjectEnd)
      items == Cardinality({i \in 1..(Len(segment) - Len(Literal.li) + 1) :
                              SubSeq(segment, i, i + Len(Literal.li) - 1)
                                = Literal.li})
  IN IF segment = <<>>
     THEN {TextXapNs \o <<0>>, xpacket, xmlDecl, <<60, 63, 120>>}
     ELSE IF ~opened
     THEN {piece \in {xmlDecl, xmpmeta} : ~has(piece)}
            \cup {subjectBag, subjectSeq, subject}
     ELSE IF ~closed
     THEN (IF items < MaxItems THEN {cat, dog, spaced, accent, blank}
           ELSE {})
            \cup {Literal.bagEnd, Literal.seqEnd, subjectEnd}
     ELSE IF segment[Len(segment)] # 0 THEN {<<0>>}
     ELSE {}

AppendXmpPiece ==
  /\ phase = "input"
  /\ \E p \in XmpPieces(rendered) :
       /\ Len(rendered) + Len(p) <= MaxXmpLen
       /\ rendered' = rendered \o p
  /\ UNCHANGED <<original, phase, status, downloads, merged, locals>>

\* a call of parseXmpBasic(rendered) in either environment
CallParseXmp ==
  /\ phase = "input"
  /\ \E hasTextDecoder \in BOOLEAN :
       \E run \in {parseXmpBasic(rendered, hasTextDecoder)} :
         /\ locals' = run
         /\ merged' = [outcome |-> "return", bytes |-> <<>>,
                       info |-> run.info]
  /\ phase' = "xmp"
  /\ UNCHANGED <<original, rendered, status, downloads>>

XmpNext ==
  \/ AppendXmpPiece
  \/ CallParseXmp

SpecXmp == Init /\ [][XmpNext]_vars

----------------------------------------------------------------------------
(* The plugin and its UI as two message handlers with the promises of the  *)
(* plugin in between.  The state is the record locals: the Figma selection,*)
(* the two message queues, the pending promises, the UI's                  *)
(* selectedImageHash, picker and metadata display, the export clicks that  *)
(* wait for their delay, and a record of what was clicked and exported.    *)
(* An image hash stands for the image, its bytes and the metadata record   *)
(* built from them; "" is null.  A message or pending promise is           *)
(* Js(type, payload).                                                      *)

MaxUiEvents == 2

\* The image fills of a node, bottom to top; "none" is the empty selection.
findAllImageFills(node) ==
  CASE node = "one" -> <<"a">>
    [] node = "two" -> <<"b", "c">>
    [] OTHER -> <<>>

\* checkAndSendFillInfo up to its first await, and the synchronous start of
\* loadAndSendMetadata for a single fill
checkAndSendFillInfo(s) ==
  LET imageFills == findAllImageFills(s.selection)
  IN IF s.selection = "none"
     THEN [s EXCEPT !.toUi = Append(@, Js("no-selection", ""))]
     ELSE IF Len(imageFills) = 0
     THEN [s EXCEPT !.toUi = Append(@, Js("no-image-fills", ""))]
     ELSE IF Len(imageFills) = 1
     THEN [s EXCEPT !.toUi = Append(@, Js("single-fill", imageFills[1])),
                    !.pending = Append(@, Js("load", imageFills[1]))]
     ELSE [s EXCEPT !.toUi = Append(@, Js("status", "Generating thumbnails")),
                    !.pending = Append(@, Js("thumbs", imageFills))]

\* figma.showUI and the UI's DOMContentLoaded, which posts the first check
UiStart ==
  /\ phase = "input" /\ original = <<>> /\ rendered = <<>>
  /\ \E node \in {"none", "plain", "one", "two"} :
       locals' = [selection |-> node,
                  toPlugin |-> <<Js("check-multiple-fills", "")>>,
                  toUi |-> <<>>, pending |-> <<>>,
                  selectedImageHash |-> "", picker |-> <<>>, shown |-> "",
                  timers |-> <<>>, cleared |-> FALSE,
                  picked |-> "", sent |-> <<>>, reads |-> <<>>,
                  events |-> 0]
  /\ phase' = "ui"
  /\ UNCHANGED <<original, rendered, status, downloads, merged>>

\* figma.on('selectionchange'): the user selects another node
SelectionChange ==
  /\ phase = "ui" /\ locals.events < MaxUiEvents
  /\ \E node \in {"none", "plain", "one", "two"} \ {locals.selection} :
       locals' = checkAndSendFillInfo(
                   [locals EXCEPT !.selection = node,
                                  !.picked = "",
                                  !.timers = [k \in DOMAIN @ |-> ""],
                                  !.events = @ + 1])
  /\ UNCHANGED <<original, rendered, phase, status, downloads, merged>>

\* figma.ui.onmessage for the next message of the UI
PluginReceives ==
  /\ phase = "ui" /\ locals.toPlugin # <<>>
  /\ LET msg == Head(locals.toPlugin)
         s == [locals EXCEPT !.toPlugin = Tail(@)]
         imageFills == findAllImageFills(s.selection)
         imageHash == IF msg.v.selectedImageHash # ""
                      THEN msg.v.selectedImageHash
                      ELSE imageFills[Len(imageFills)]
     IN locals' =
          IF msg.kind = "check-multiple-fills" THEN checkAndSendFillInfo(s)
          ELSE IF msg.kind = "load-metadata"
          THEN [s EXCEPT !.pending = Append(@, Js("load", msg.v))]
          ELSE IF s.selection = "none" \/ Len(imageFills) = 0 THEN s
          ELSE [s EXCEPT
                  !.toUi = Append(@, Js("status", "Reading original image")),
                  !.pending = Append(@, Js("export",
                                [imageHash |-> imageHash,
                                 node |-> s.selection])),
                  !.reads = Append(@, [expected |->
                                         IF msg.v.expected = s.picked
                                         THEN msg.v.expected ELSE "",
                                       imageHash |-> imageHash,
                                       node |-> s.selection])]
  /\ UNCHANGED <<original, rendered, phase, status, downloads, merged>>

\* One of the pending promises of the plugin settles and its continuation
\* runs: the bytes of loadAndSendMetadata, the thumbnails of
\* checkAndSendFillInfo (which may fail), the bytes and the rendering of
\* exportSelectedWithMetadata.
PromiseSettles ==
  /\ phase = "ui"
  /\ \E k \in DOMAIN locals.pending, fulfilled \in BOOLEAN :
       LET p == locals.pending[k]
           s == [locals EXCEPT !.pending =
                   SubSeq(@, 1, k - 1) \o SubSeq(@, k + 1, Len(@))]
       IN /\ fulfilled \/ p.kind = "thumbs"
          /\ locals' =
               IF p.kind = "load"
               THEN [s EXCEPT !.toUi = Append(@, Js("metadata", p.v))]
               ELSE IF p.kind = "thumbs" /\ fulfilled
               THEN [s EXCEPT
                       !.toUi = Append(@, Js("multiple-fills", p.v)),
                       !.pending = Append(@, Js("load", p.v[Len(p.v)]))]
               ELSE IF p.kind = "thumbs"
               THEN [s EXCEPT
                       !.toUi = @ \o <<Js("status", "Failed to generate"),
                                       Js("multiple-fills", p.v)>>]
               ELSE [s EXCEPT
                       !.toUi = @ \o <<Js("status", "Exporting cropped view"),
                                       Js("process-jpeg", p.v)>>]
  /\ UNCHANGED <<original, rendered, phase, status, downloads, merged>>

\* window.onmessage for the next message of the plugin
UiReceives ==
  /\ phase = "ui" /\ locals.toUi # <<>>
  /\ LET msg == Head(locals.toUi)
         s == [locals EXCEPT !.toUi = Tail(@)]
     IN /\ locals' =
             IF msg.kind = "single-fill"
             THEN [s EXCEPT !.picker = <<>>, !.selectedImageHash = msg.v,
                            !.cleared = FALSE]
             ELSE IF msg.kind = "multiple-fills"
             THEN [s EXCEPT !.picker = msg.v,
                            !.selectedImageHash = msg.v[Len(msg.v)],
                            !.cleared = FALSE]
             ELSE IF msg.kind \in {"no-selection", "no-image-fills"}
             THEN [s EXCEPT !.picker = <<>>, !.shown = "",
                            !.cleared = TRUE]
             ELSE IF msg.kind = "metadata"
             THEN [s EXCEPT !.shown = msg.v]
             ELSE s
        /\ status' =
             IF msg.kind = "status" THEN msg.v
             ELSE IF msg.kind = "no-selection" THEN ""
             ELSE IF msg.kind = "no-image-fills" THEN "No image fill"
             ELSE IF msg.kind = "process-jpeg" THEN "Done. File downloaded."
             ELSE status
        /\ downloads' =
             IF msg.kind = "process-jpeg" THEN Append(downloads, msg.v)
             ELSE downloads
  /\ UNCHANGED <<original, rendered, phase, merged>>

\* the click listener of a thumbnail of the picker
ClickThumbnail ==
  /\ phase = "ui" /\ locals.events < MaxUiEvents
  /\ \E k \in DOMAIN locals.picker :
       locals' = [locals EXCEPT
                    !.selectedImageHash = locals.picker[k],
                    !.toPlugin = Append(@, Js("load-metadata",
                                              locals.picker[k])),
                    !.cleared = FALSE,
                    !.picked = IF Len(findAllImageFills(locals.selection)) > 1
                               THEN locals.picker[k] ELSE "",
                    !.timers = [j \in DOMAIN @ |-> ""],
                    !.events = @ + 1]
  /\ UNCHANGED <<original, rendered, phase, status, downloads, merged>>

\* the click listener of Export up to its await: the re-check is posted
\* and the delay starts; the timer remembers the thumbnail clicked before
ClickExport ==
  /\ phase = "ui" /\ locals.events < MaxUiEvents
  /\ locals' = [locals EXCEPT
                  !.toPlugin = Append(@, Js("check-multiple-fills", "")),
                  !.timers = Append(@, locals.picked),
                  !.events = @ + 1]
  /\ UNCHANGED <<original, rendered, phase, status, downloads, merged>>

\* the 200 ms are over: the rest of the click listener of Export
ExportDelayEnds ==
  /\ phase = "ui" /\ locals.timers # <<>>
  /\ locals' = [locals EXCEPT
                  !.timers = Tail(@),
                  !.toPlugin = Append(@, Js("export",
                                 [selectedImageHash |->
                                    locals.selectedImageHash,
                                  expected |-> Head(locals.timers)])),
                  !.sent = Append(@, [expected |-> Head(locals.timers),
                                      selectedImageHash |->
                                        locals.selectedImageHash])]
  /\ status' = "Exporting"
  /\ UNCHANGED <<original, rendered, phase, downloads, merged>>

UiNext ==
  \/ UiStart
  \/ SelectionChange
  \/ PluginReceives
  \/ PromiseSettles
  \/ UiReceives
  \/ ClickThumbnail
  \/ ClickExport
  \/ ExportDelayEnds

SpecUi == Init /\ [][UiNext]_vars

----------------------------------------------------------------------------
(* Vocabulary of the properties.                                           *)

\* the buffer begins with the two bytes FF D8
BeginsFFD8(b) == Len(b) >= 2 /\ b[1] = 255 /\ b[2] = 216

\* the bytes of b from 0-based offset pos to the end
BytesFrom(b, pos) == SubSeq(b, pos + 1, Len(b))

IsMetaMarker(m) == m \in {225, 226, 237, 254}

RECURSIVE Flat(_)
Flat(ss) == IF ss = <<>> THEN <<>> ELSE Head(ss) \o Flat(Tail(ss))

DataOf(segs) == [k \in 1..Len(segs) |-> segs[k].data]

\* the APP1/APP2/APP13/COM segments of a segment list, in order
MetaSegs(segs) == SelectSeq(segs, LAMBDA s : IsMetaMarker(s.marker))

\* the other segments of a segment list, in order
OtherSegs(segs) == SelectSeq(segs, LAMBDA s : ~IsMetaMarker(s.marker))

\* rendered's first segment when it is APP0, as a list of 0 or 1 segments
LeadingApp0(segs) ==
  IF Len(segs) > 0 /\ segs[1].marker = 224 THEN <<segs[1]>> ELSE <<>>

\* a segment list in which every segment lies inside a buffer of n bytes
\* and, unless its marker stands alone (01, D0..D7), declares at least the
\* two bytes of its own length field
Complete(segs, n) ==
  \A k \in 1..Len(segs) :
    /\ segs[k].end <= n
    /\ segs[k].length >= 2 \/ segs[k].marker \in ({1} \cup (208..215))

\* the merge of the handled message returned
MergeReturned == phase = "done" /\ merged.outcome = "return"

----------------------------------------------------------------------------
(* C1: for an original starting with SOI and a rendered starting with SOI  *)
(* whose segment scan stops at an SOS marker, the merged output begins     *)
(* with FF D8, its own segment scan stops at an SOS marker, and the bytes  *)
(* from that marker to the end equal the bytes of rendered from the SOS    *)
(* marker at which the scan of rendered stops to the end.                  *)
C1_ScanTailPreserved ==
  (/\ phase = "done"
   /\ BeginsFFD8(original)
   /\ BeginsFFD8(rendered)
   /\ locals.rendSegs.exit = "sos")
  => /\ merged.outcome = "return"
     /\ BeginsFFD8(merged.bytes)
     /\ LET po == parseJpegSegments(merged.bytes)
        IN /\ po.exit = "sos"
           /\ BytesFrom(merged.bytes, po.i - 2)
                = BytesFrom(rendered, locals.rendSegs.i - 2)

\* C1 restricted to inputs all of whose segments are complete
C1_ScanTailPreservedWhenComplete ==
  (/\ phase = "done"
   /\ BeginsFFD8(original)
   /\ BeginsFFD8(rendered)
   /\ locals.rendSegs.exit = "sos"
   /\ Complete(locals.origSegs.segments, Len(original))
   /\ Complete(locals.rendSegs.segments, Len(rendered)))
  => LET po == parseJpegSegments(merged.bytes)
     IN /\ po.exit = "sos"
        /\ BytesFrom(merged.bytes, po.i - 2)
             = BytesFrom(rendered, locals.rendSegs.i - 2)

(* C2: the merged output is SOI, then rendered's first segment if that is  *)
(* APP0, then every APP1/APP2/APP13/COM segment of original, each once,    *)
(* byte for byte and in original's order; everything else follows.         *)
C2_OriginalMetadataBlock ==
  MergeReturned =>
    LET lead == Flat(DataOf(LeadingApp0(locals.rendSegs.segments)))
        kept == Flat(DataOf(MetaSegs(locals.origSegs.segments)))
        n == 2 + Len(lead) + Len(kept)
    IN /\ Len(merged.bytes) >= n
       /\ SubSeq(merged.bytes, 1, n) = <<255, 216>> \o lead \o kept

\* two different APP1 segments of original were merged behind a leading
\* APP0 of rendered
C2_Witness ==
  /\ MergeReturned
  /\ LeadingApp0(locals.rendSegs.segments) # <<>>
  /\ LET so == locals.origSegs.segments
     IN \E j, k \in 1..Len(so) :
          /\ j < k
          /\ so[j].marker = 225 /\ so[k].marker = 225
          /\ so[j].data # so[k].data
          /\ Complete(so, Len(original))

C4_ThrowsIffNotJpeg ==
  phase = "done" =>
    /\ merged.outcome \in {"throw", "return"}
    /\ merged.outcome = "throw"
         <=> ~(BeginsFFD8(original) /\ BeginsFFD8(rendered))
    /\ merged.outcome = "throw" => merged.bytes = <<>>

\* a one-byte original made the merge throw although rendered is a JPEG
C4_Witness ==
  /\ phase = "done"
  /\ Len(original) = 1
  /\ BeginsFFD8(rendered)
  /\ merged.outcome = "throw"

(* C5: handling a 'process-jpeg' message delivers exactly one file: the    *)
(* merged bytes when the merge returned, the rendered bytes of the message *)
(* when it threw; no other step delivers a file.                           *)
C5_ExactlyOneFile ==
  [][ /\ (phase # "done" /\ phase' = "done")
         => /\ Len(downloads') = Len(downloads) + 1
            /\ downloads'[Len(downloads')]
                 = IF merged'.outcome = "return"
                   THEN merged'.bytes ELSE rendered
      /\ ~(phase # "done" /\ phase' = "done") => downloads' = downloads
    ]_vars

\* a merge that threw was followed by the delivery of the rendered bytes
C5_Witness ==
  /\ phase = "done"
  /\ merged.outcome = "throw"
  /\ rendered # <<>>
  /\ downloads = <<rendered>>

C6_IdempotentWhenComplete ==
  (/\ phase = "done"
   /\ Len(downloads) = 2
   /\ BeginsFFD8(original)
   /\ BeginsFFD8(downloads[1])
   /\ Complete(locals.origSegs.segments, Len(original))
   /\ Complete(locals.rendSegs.segments, Len(rendered)))
  => DataOf(MetaSegs(parseJpegSegments(downloads[2]).segments))
       = DataOf(MetaSegs(parseJpegSegments(downloads[1]).segments))

----------------------------------------------------------------------------
(* Properties of parseJpegSegments alone, under SpecParse.                 *)

\* where the scan stopped: the SOS or EOI marker, or the offset at which
\* the loop ended (inside the buffer)
StopOffset(p, n) ==
  IF p.exit \in {"sos", "eoi"} THEN p.i - 2 ELSE Min(p.i, n)

\* offset q lies in the byte range of some returned segment
Covered(segs, q) ==
  \E k \in 1..Len(segs) : segs[k].start <= q /\ q < segs[k].end

\* the bytes of b at the offsets from..to-1 that lie in a segment
RECURSIVE CoveredBytes(_, _, _, _)
CoveredBytes(b, segs, from, to) ==
  IF from >= to THEN <<>>
  ELSE (IF Covered(segs, from) THEN <<b[from + 1]>> ELSE <<>>)
       \o CoveredBytes(b, segs, from + 1, to)

(* C7, as stated: the returned segments, concatenated, are the input from  *)
(* offset 2 to the offset where the scan stopped.                          *)
C7_RoundTripExact ==
  phase = "parsed" =>
    Flat(DataOf(locals.rendSegs.segments))
      = SubSeq(rendered, 3,
               StopOffset(locals.rendSegs, Len(rendered)))

(* C7, amended: the returned segments are views of disjoint, increasing    *)
(* byte ranges starting at offset 2 or later; concatenated they are the    *)
(* input from offset 2 to the offset where the scan stopped with the bytes *)
(* outside every segment removed, and each removed byte is a byte other    *)
(* than FF that the scan skipped.  No byte is duplicated, and when no byte *)
(* was skipped the concatenation is that input range exactly.              *)
C7_RoundTripModuloSkipped ==
  phase = "parsed" =>
    LET segs == locals.rendSegs.segments
        n == Len(rendered)
        stop == StopOffset(locals.rendSegs, n)
        skipped == {q \in 2..(stop - 1) : ~Covered(segs, q)}
    IN /\ \A k \in 1..Len(segs) :
            /\ 2 <= segs[k].start /\ segs[k].start < segs[k].end
            /\ segs[k].start < stop
            /\ k < Len(segs) => segs[k].end <= segs[k + 1].start
            /\ segs[k].data
                 = SubSeq(rendered, segs[k].start + 1, Min(segs[k].end, n))
       /\ \A q \in skipped : rendered[q + 1] # 255
       /\ Flat(DataOf(segs)) = CoveredBytes(rendered, segs, 2, stop)
       /\ skipped = {} => Flat(DataOf(segs)) = SubSeq(rendered, 3, stop)

\* two segments were returned with a skipped byte between them
C7_Witness ==
  /\ phase = "parsed"
  /\ LET segs == locals.rendSegs.segments
     IN /\ Len(segs) >= 2
        /\ segs[1].end < segs[2].start
        /\ segs[2].length >= 2

(* C8: every segment returned by parseJpegSegments lies inside the buffer: *)
(* start < end <= buffer length, with end - start equal to 2 plus the      *)
(* declared length; a segment whose declared end exceeds the buffer is not *)
(* returned.                                                               *)
C8_NoOverrunningSegment ==
  phase = "parsed" =>
    \A k \in 1..Len(locals.rendSegs.segments) :
      LET seg == locals.rendSegs.segments[k]
      IN /\ seg.start < seg.end
         /\ seg.end <= Len(rendered)
         /\ seg.end - seg.start = 2 + seg.length

----------------------------------------------------------------------------
(* Properties of the PNG merge.                                            *)

\* the IDAT and IEND chunks of a chunk list, in order, each as its type,
\* its data bytes and its CRC
ImageChunks(chunks) ==
  LET kept == SelectSeq(chunks,
                        LAMBDA c : c.type = TypeIDAT \/ c.type = TypeIEND)
  IN [k \in 1..Len(kept) |-> <<kept[k].type, kept[k].data, kept[k].crc>>]

\* no payload of any of the three kinds is found in the original
NoMetadataFound(orig) ==
  /\ ~extractExifForPng(orig).found
  /\ ~extractXmpForPng(orig).found
  /\ ~extractIccForPng(orig).found

\* every chunk declares a length of zero or more
LengthsNonNegative(chunks) == \A k \in 1..Len(chunks) : chunks[k].length >= 0

(* C9: mergePngMetadata(original, rendered) returns a buffer for every     *)
(* pair of buffers, it never raises and never fails to return; when        *)
(* rendered lacks the PNG signature, has no IHDR chunk, or no EXIF, XMP or *)
(* ICC payload is found in original, the returned bytes are rendered.      *)
C9_AlwaysReturnsBuffer ==
  phase = "done" =>
    /\ merged.outcome = "return"
    /\ (\/ ~hasPngSignature(rendered)
        \/ NoMetadataFound(original)
        \/ firstChunkOfType(parsePngChunks(rendered).chunks, TypeIHDR, 0)
             = -1)
         => merged.bytes = rendered

\* C9 restricted to the calls in which the chunk scan of rendered ends
C9_ReturnsWhenScanEnds ==
  (phase = "done" /\ parsePngChunks(rendered).exit # "never") =>
    /\ merged.outcome = "return"
    /\ (\/ ~hasPngSignature(rendered)
        \/ NoMetadataFound(original)
        \/ firstChunkOfType(parsePngChunks(rendered).chunks, TypeIHDR, 0)
             = -1)
         => merged.bytes = rendered

(* C10: for a rendered buffer with the PNG signature and any original, the *)
(* output of mergePngMetadata is accepted by parsePngChunks, and the IDAT  *)
(* and IEND chunks parsed from the output have the same types, data bytes  *)
(* and CRCs, in the same order, as those parsed from rendered.             *)
C10_ImageChunksPreserved ==
  (phase = "done" /\ hasPngSignature(rendered)) =>
    /\ merged.outcome = "return"
    /\ parsePngChunks(merged.bytes).exit \in {"end", "overrun", "iend"}
    /\ ImageChunks(parsePngChunks(merged.bytes).chunks)
         = ImageChunks(parsePngChunks(rendered).chunks)

\* C10 restricted to the calls that return
C10_PreservedWhenReturned ==
  (/\ phase = "done" /\ hasPngSignature(rendered)
   /\ merged.outcome = "return") =>
    /\ parsePngChunks(merged.bytes).exit \in {"end", "overrun", "iend"}
    /\ ImageChunks(parsePngChunks(merged.bytes).chunks)
         = ImageChunks(parsePngChunks(rendered).chunks)

\* C10 restricted to rendered buffers whose chunks all declare a length of
\* zero or more
C10_PreservedWhenLengthsNonNegative ==
  (/\ phase = "done" /\ hasPngSignature(rendered)
   /\ parsePngChunks(rendered).exit # "never"
   /\ LengthsNonNegative(parsePngChunks(rendered).chunks)) =>
    /\ merged.outcome = "return"
    /\ parsePngChunks(merged.bytes).exit \in {"end", "overrun", "iend"}
    /\ ImageChunks(parsePngChunks(merged.bytes).chunks)
         = ImageChunks(parsePngChunks(rendered).chunks)

----------------------------------------------------------------------------
(* Placement and content of the inserted PNG chunks.                       *)

\* the bytes of each chunk of a chunk list inside its buffer, in order
ChunkBytes(bytes, chunks) ==
  [k \in 1..Len(chunks) |->
     SubSeq(bytes, chunks[k].start + 1, chunks[k].end)]

\* the 1-based positions of the chunks of a type
PositionsOf(chunks, type) == {k \in 1..Len(chunks) : chunks[k].type = type}

\* the least element of a non-empty set of numbers
Least(S) == CHOOSE k \in S : \A h \in S : k <= h

\* the merge returned a buffer into which it inserted at least one chunk
MergeInserted ==
  /\ phase = "done" /\ merged.outcome = "return"
  /\ PositionsOf(parsePngChunks(rendered).chunks, TypeIHDR) # {}
  /\ insertedChunks(extractExifForPng(original),
                    extractXmpForPng(original)) # <<>>

(* C11: when chunks are inserted into a rendered PNG with an IHDR chunk,   *)
(* the output is the signature, rendered's chunks before the insertion     *)
(* point, the new eXIf chunk (if any), the new iTXt chunk (if any), then   *)
(* rendered's remaining chunks in order; every inserted chunk lies after   *)
(* IHDR and before the first IDAT chunk of the output, and directly after  *)
(* IHDR when rendered has no IDAT.                                         *)
C11_InsertedAfterIhdrBeforeIdat ==
  MergeInserted =>
    LET rc == parsePngChunks(rendered).chunks
        out == parsePngChunks(merged.bytes)
        oc == out.chunks
        new == insertedChunks(extractExifForPng(original),
                              extractXmpForPng(original))
        ihdr == Least(PositionsOf(rc, TypeIHDR))
        idats == PositionsOf(oc, TypeIDAT)
    IN /\ out.exit \in {"end", "iend"}
       /\ \E k \in 1..Len(rc) :
            /\ ChunkBytes(merged.bytes, oc)
                 = SubSeq(ChunkBytes(rendered, rc), 1, k) \o new
                     \o SubSeq(ChunkBytes(rendered, rc), k + 1, Len(rc))
            /\ Len(merged.bytes) = 8 + Len(Flat(ChunkBytes(merged.bytes, oc)))
            /\ ihdr <= k
            /\ idats # {} => k + Len(new) < Least(idats)
            /\ PositionsOf(rc, TypeIDAT) = {} => k = ihdr

\* C11 restricted to rendered buffers whose chunks all declare a length of
\* zero or more
C11_WhenLengthsNonNegative ==
  (MergeInserted /\ LengthsNonNegative(parsePngChunks(rendered).chunks))
    => C11_InsertedAfterIhdrBeforeIdat

\* C11 restricted further to rendered buffers without an IDAT chunk in
\* front of the first IHDR chunk
C11_WhenIhdrPrecedesIdat ==
  (/\ MergeInserted
   /\ LengthsNonNegative(parsePngChunks(rendered).chunks)
   /\ LET rc == parsePngChunks(rendered).chunks
      IN \A k \in PositionsOf(rc, TypeIDAT) :
           k > Least(PositionsOf(rc, TypeIHDR)))
    => C11_InsertedAfterIhdrBeforeIdat

\* the APP1 segments of a JPEG whose payload begins 'Exif' 00 00, in order
ExifSegs(orig) ==
  SelectSeq(parseJpegSegments(orig).segments,
            LAMBDA seg : /\ seg.marker = 225
                         /\ Len(seg.data) >= 10
                         /\ SubSeq(seg.data, 5, 10)
                              = <<69, 120, 105, 102, 0, 0>>)

\* the payload of a segment behind the six bytes of the identifier
TiffBytes(seg) == SubSeq(seg.data, 11, Len(seg.data))

\* the data fields of the chunks of a type, in order
DataOfType(chunks, type) ==
  LET kept == SelectSeq(chunks, LAMBDA c : c.type = type)
  IN [k \in 1..Len(kept) |-> kept[k].data]

\* a merge into a rendered PNG with an IHDR chunk returned
MergedIntoPng ==
  /\ phase = "done" /\ merged.outcome = "return"
  /\ PositionsOf(parsePngChunks(rendered).chunks, TypeIHDR) # {}

(* C12, as stated: when original is a JPEG with an APP1 segment whose      *)
(* payload begins 'Exif' 00 00, the eXIf chunk inserted has as data that   *)
(* payload without its first six bytes, taken from the first such segment. *)
C12_ExifFromFirstSegment ==
  (/\ MergedIntoPng /\ BeginsFFD8(original) /\ ExifSegs(original) # <<>>
   /\ DataOfType(parsePngChunks(merged.bytes).chunks, TypeEXIf)
        # DataOfType(parsePngChunks(rendered).chunks, TypeEXIf)) =>
    DataOfType(parsePngChunks(merged.bytes).chunks, TypeEXIf)
      = DataOfType(parsePngChunks(rendered).chunks, TypeEXIf)
          \o <<TiffBytes(ExifSegs(original)[1])>>

(* C12, amended: the segment used is the first such segment that has bytes *)
(* behind the six bytes of the identifier; when no segment has, no eXIf    *)
(* chunk is inserted.                                                      *)
C12_ExifFromFirstNonEmptySegment ==
  (MergedIntoPng /\ BeginsFFD8(original)
     /\ PositionsOf(parsePngChunks(rendered).chunks, TypeEXIf) = {}) =>
    LET full == SelectSeq(ExifSegs(original),
                          LAMBDA seg : TiffBytes(seg) # <<>>)
        got == SelectSeq(parsePngChunks(merged.bytes).chunks,
                         LAMBDA c : c.type = TypeEXIf)
    IN IF full = <<>> THEN got = <<>>
       ELSE /\ Len(got) = 1
            /\ got[1].data = TiffBytes(full[1])
            /\ got[1].length = Len(TiffBytes(full[1]))

\* the first segment with an EXIF payload had nothing behind the identifier
\* and the eXIf chunk took its data from the second
C12_Witness ==
  /\ MergedIntoPng
  /\ Len(ExifSegs(original)) >= 2
  /\ TiffBytes(ExifSegs(original)[1]) = <<>>
  /\ DataOfType(parsePngChunks(merged.bytes).chunks, TypeEXIf)
       = <<TiffBytes(ExifSegs(original)[2])>>

\* two segments with different EXIF payloads, the first one was used
C12_WitnessFirstOfTwo ==
  /\ MergedIntoPng
  /\ Len(ExifSegs(original)) >= 2
  /\ TiffBytes(ExifSegs(original)[1]) # <<>>
  /\ TiffBytes(ExifSegs(original)[2]) # <<>>
  /\ TiffBytes(ExifSegs(original)[1]) # TiffBytes(ExifSegs(original)[2])

\* the namespace identifier of an XMP segment with its NUL terminator
XmpIdentifier ==
  <<104, 116, 116, 112, 58, 47, 47, 110, 115, 46, 97, 100, 111, 98, 101, 46,
    99, 111, 109, 47, 120, 97, 112, 47, 49, 46, 48, 47, 0>>

\* the APP1 segments of a JPEG whose payload begins with the identifier
XmpSegs(orig) ==
  SelectSeq(parseJpegSegments(orig).segments,
            LAMBDA seg : /\ seg.marker = 225
                         /\ Len(seg.data) >= 4 + Len(XmpIdentifier)
                         /\ SubSeq(seg.data, 5, 4 + Len(XmpIdentifier))
                              = XmpIdentifier)

\* the bytes of a sequence up to its first NUL, or all of it
UpToNul(bytes) ==
  LET nuls == {k \in 1..Len(bytes) : bytes[k] = 0}
  IN IF nuls = {} THEN bytes ELSE SubSeq(bytes, 1, Least(nuls) - 1)

\* the XML document of an XMP segment: what follows the identifier, up to
\* the first NUL or the end of the segment
XmlDocument(seg) ==
  UpToNul(SubSeq(seg.data, 5 + Len(XmpIdentifier), Len(seg.data)))

\* the data of an iTXt chunk carrying a text under the XMP keyword
ItxtOf(text) ==
  <<88, 77, 76, 58, 99, 111, 109, 46, 97, 100, 111, 98, 101, 46, 120, 109,
    112>> \o <<0>> \o <<0>> \o <<0>> \o <<0>> \o <<0>> \o text

(* C13: when original carries an XMP APP1 segment, the iTXt chunk inserted *)
(* has as data the keyword 'XML:com.adobe.xmp', a NUL, compression flag 0, *)
(* compression method 0, an empty language tag, an empty translated        *)
(* keyword, and then the XML document of that segment, from its start to   *)
(* the first NUL behind it or the end of the segment, not the namespace    *)
(* identifier in front of the document.                                    *)
C13_ItxtCarriesXmlDocument ==
  (/\ MergedIntoPng /\ BeginsFFD8(original)
   /\ XmpSegs(original) # <<>>
   /\ XmlDocument(XmpSegs(original)[1]) # <<>>) =>
    DataOfType(parsePngChunks(merged.bytes).chunks, TypeITXt)
      = DataOfType(parsePngChunks(rendered).chunks, TypeITXt)
          \o <<ItxtOf(XmlDocument(XmpSegs(original)[1]))>>

\* C13 restricted to documents that begin with the four bytes '<?xm'
C13_WhenDocumentBeginsXm ==
  (/\ MergedIntoPng /\ BeginsFFD8(original)
   /\ XmpSegs(original) # <<>>
   /\ Len(XmlDocument(XmpSegs(original)[1])) > 4
   /\ SubSeq(XmlDocument(XmpSegs(original)[1]), 1, 4) = <<60, 63, 120, 109>>)
   => DataOfType(parsePngChunks(merged.bytes).chunks, TypeITXt)
        = DataOfType(parsePngChunks(rendered).chunks, TypeITXt)
            \o <<ItxtOf(XmlDocument(XmpSegs(original)[1]))>>

\* an XMP segment whose document begins '<?xm' was merged into a PNG
C13_ReachedDocumentBeginsXm ==
  /\ MergedIntoPng /\ BeginsFFD8(original)
  /\ XmpSegs(original) # <<>>
  /\ Len(XmlDocument(XmpSegs(original)[1])) > 4
  /\ SubSeq(XmlDocument(XmpSegs(original)[1]), 1, 4) = <<60, 63, 120, 109>>

\* the chunks of a chunk list, each as its type, its data bytes and its CRC
Triples(chunks) ==
  [k \in 1..Len(chunks) |-> <<chunks[k].type, chunks[k].data, chunks[k].crc>>]

\* the iCCP chunks of a chunk list, each as type, data and CRC
IccpChunks(chunks) ==
  Triples(SelectSeq(chunks, LAMBDA c : c.type = <<105, 67, 67, 80>>))

\* an ICC profile is the only metadata the extractors find in the original
OnlyIccFound(orig) ==
  /\ extractIccForPng(orig).found
  /\ ~extractExifForPng(orig).found
  /\ ~extractXmpForPng(orig).found

(* C14: mergePngMetadata never adds an iCCP chunk: the iCCP chunks of the  *)
(* output are those of rendered, and when the ICC profile is the only      *)
(* metadata found in original, the chunk sequence of the output (types,    *)
(* data, CRCs) is the chunk sequence parsed from rendered.                 *)
C14_NoIccpAdded ==
  (phase = "done" /\ merged.outcome = "return"
     /\ hasPngSignature(rendered)) =>
    LET rc == parsePngChunks(rendered).chunks
        oc == parsePngChunks(merged.bytes).chunks
    IN /\ IccpChunks(oc) = IccpChunks(rc)
       /\ OnlyIccFound(original) => Triples(oc) = Triples(rc)

\* C14 restricted to rendered buffers whose chunks all declare a length of
\* zero or more
C14_WhenLengthsNonNegative ==
  (phase = "done" /\ merged.outcome = "return"
     /\ hasPngSignature(rendered)
     /\ LengthsNonNegative(parsePngChunks(rendered).chunks))
    => C14_NoIccpAdded

\* a non-empty ICC profile, the only metadata of the original, met a
\* rendered PNG with IHDR and an iCCP chunk of its own, and the output was
\* built anew
C14_ReachedOnlyIcc ==
  /\ MergedIntoPng
  /\ OnlyIccFound(original)
  /\ Len(extractIccForPng(original).data) > 0
  /\ IccpChunks(parsePngChunks(rendered).chunks) # <<>>
  /\ LengthsNonNegative(parsePngChunks(rendered).chunks)
  /\ merged.bytes # rendered

----------------------------------------------------------------------------
(* The chunk encoder, read back by the chunk parser.                       *)

\* one byte of the standard CRC-32, bit by bit: eight times, shift right
\* by one and, when the bit shifted out was 1, XOR the polynomial EDB88320
RECURSIVE StdCrcBits(_, _)
StdCrcBits(crc, n) ==
  IF n = 0 THEN crc
  ELSE LET shifted == <<crc[1] \div 2,
                        (crc[2] \div 2) + (crc[1] % 2) * 128,
                        (crc[3] \div 2) + (crc[2] % 2) * 128,
                        (crc[4] \div 2) + (crc[3] % 2) * 128>>
           next == IF crc[4] % 2 = 1
                   THEN <<xor8(shifted[1], 237), xor8(shifted[2], 184),
                          xor8(shifted[3], 131), xor8(shifted[4], 32)>>
                   ELSE shifted
       IN IF Len(next) = 4 THEN StdCrcBits(next, n - 1) ELSE next

RECURSIVE StdCrcBytes(_, _)
StdCrcBytes(crc, bytes) ==
  IF bytes = <<>> THEN crc
  ELSE LET fed == StdCrcBits(<<crc[1], crc[2], crc[3],
                               xor8(crc[4], Head(bytes))>>, 8)
       IN IF Len(fed) = 4 THEN StdCrcBytes(fed, Tail(bytes)) ELSE fed

\* the standard PNG CRC-32 of a byte sequence, as four bytes, most
\* significant first: initial value FFFFFFFF, final XOR FFFFFFFF
StdCrc32(bytes) ==
  LET crc == StdCrcBytes(<<255, 255, 255, 255>>, bytes)
  IN <<255 - crc[1], 255 - crc[2], 255 - crc[3], 255 - crc[4]>>

\* the signed 32-bit reading of four bytes, as the parser stores a CRC
SignedWord(w) ==
  (((IF w[1] >= 128 THEN w[1] - 256 ELSE w[1]) * 256 + w[2]) * 256 + w[3])
    * 256 + w[4]

\* the chunk was built and is read back behind a signature
ChunkBuilt == phase = "done" /\ merged.outcome = "return"

ReadBack == parsePngChunks(PngSignature \o merged.bytes)

----------------------------------------------------------------------------
(* The chunk parser on the rendered buffer of a merge.                     *)

(* C16: every chunk parsePngChunks returns for a buffer with the signature *)
(* has a data range of the declared length that lies, with its four CRC    *)
(* bytes, inside the buffer, whatever the four bytes of the length field   *)
(* (top bit set included); a chunk whose declared end exceeds the buffer   *)
(* is not returned, and no chunk behind an IEND chunk is returned.         *)
C16_ChunksInsideBuffer ==
  (phase = "done" /\ hasPngSignature(rendered)
     /\ parsePngChunks(rendered).exit # "never") =>
    LET chunks == parsePngChunks(rendered).chunks
    IN \A k \in 1..Len(chunks) :
         /\ Len(chunks[k].data) = chunks[k].length
         /\ 8 <= chunks[k].start
         /\ chunks[k].end = chunks[k].start + 12 + chunks[k].length
         /\ chunks[k].end <= Len(rendered)
         /\ chunks[k].data
              = SubSeq(rendered, chunks[k].start + 9, chunks[k].end - 4)
         /\ chunks[k].type = TypeIEND => k = Len(chunks)

\* C16 restricted to the chunks whose length field has the top bit clear
C16_WhenTopBitClear ==
  (phase = "done" /\ hasPngSignature(rendered)
     /\ parsePngChunks(rendered).exit # "never") =>
    LET chunks == parsePngChunks(rendered).chunks
    IN \A k \in 1..Len(chunks) :
         /\ chunks[k].type = TypeIEND => k = Len(chunks)
         /\ rendered[chunks[k].start + 1] < 128 =>
              /\ Len(chunks[k].data) = chunks[k].length
              /\ 8 <= chunks[k].start
              /\ chunks[k].end = chunks[k].start + 12 + chunks[k].length
              /\ chunks[k].end <= Len(rendered)
              /\ chunks[k].data
                   = SubSeq(rendered, chunks[k].start + 9, chunks[k].end - 4)

----------------------------------------------------------------------------
(* Properties of the EXIF decoder.                                         *)

\* parseExif was called and returned
ExifCalled == phase = "done" /\ merged.outcome = "return"

\* the 16-bit and the 32-bit field at a 0-based offset of a segment
Field16(segment, at, littleEndian) ==
  IF littleEndian THEN segment[at + 1] + 256 * segment[at + 2]
  ELSE 256 * segment[at + 1] + segment[at + 2]

Field32(segment, at, littleEndian) ==
  IF littleEndian
  THEN Field16(segment, at, TRUE) + 65536 * Field16(segment, at + 2, TRUE)
  ELSE 65536 * Field16(segment, at, FALSE) + Field16(segment, at + 2, FALSE)

TextExifNulNul == <<69, 120, 105, 102, 0, 0>>

\* the segment begins with Exif 00 00, II or MM, and 42 in that order
WellFormedTiffHeader(segment) ==
  /\ Len(segment) >= 14
  /\ SubSeq(segment, 1, 6) = TextExifNulNul
  /\ SubSeq(segment, 7, 8) \in {<<73, 73>>, <<77, 77>>}
  /\ Field16(segment, 8, SubSeq(segment, 7, 8) = <<73, 73>>) = 42

\* the primary IFD of a well-formed segment has exactly one entry, which is
\* a Make of type ASCII with a count n > 4 whose n - 1 characters and NUL
\* terminator lie in the segment at the entry's offset
OneMakeEntry(segment) ==
  /\ WellFormedTiffHeader(segment)
  /\ LET le == SubSeq(segment, 7, 8) = <<73, 73>>
         ifd == 6 + Field32(segment, 10, le)
     IN /\ Len(segment) >= ifd + 14
        /\ Field16(segment, ifd, le) = 1
        /\ Field16(segment, ifd + 2, le) = 271
        /\ Field16(segment, ifd + 4, le) = 2
        /\ LET n == Field32(segment, ifd + 6, le)
               at == 6 + Field32(segment, ifd + 10, le)
           IN /\ n > 4
              /\ at + n <= Len(segment)
              /\ segment[at + n] = 0
              /\ \A k \in 1..(n - 1) : segment[at + k] # 0

\* the characters of the Make string of such a segment
MakeCharacters(segment) ==
  LET le == SubSeq(segment, 7, 8) = <<73, 73>>
      ifd == 6 + Field32(segment, 10, le)
      n == Field32(segment, ifd + 6, le)
      at == 6 + Field32(segment, ifd + 10, le)
  IN SubSeq(segment, at + 1, at + n - 1)

\* C17: for a segment Exif 00 00 with a well-formed TIFF header of either
\* byte order whose primary IFD holds the single entry {Make, ASCII, count
\* n > 4, string of n - 1 characters and a NUL at the offset}, parseExif
\* returns a map whose make is the string without the terminator and whose
\* other fields are all unset.
C17_MakeDecoded ==
  (ExifCalled /\ OneMakeEntry(rendered)) =>
    /\ merged.data.make = [kind |-> "string", v |-> MakeCharacters(rendered)]
    /\ \A f \in DOMAIN merged.data :
         f # "make" => merged.data[f].kind = "undefined"

\* the spec's vector, little-endian: make = 'Canon'
C17_Witness ==
  /\ ExifCalled
  /\ OneMakeEntry(rendered)
  /\ SubSeq(rendered, 7, 8) = <<73, 73>>
  /\ merged.data.make = [kind |-> "string", v |-> <<67, 97, 110, 111, 110>>]

\* the same entry behind a big-endian header
C17_WitnessBigEndian ==
  /\ ExifCalled
  /\ OneMakeEntry(rendered)
  /\ SubSeq(rendered, 7, 8) = <<77, 77>>
  /\ merged.data.make = [kind |-> "string", v |-> <<67, 97, 110, 111, 110>>]

\* no field of the returned map is set
NoFieldDecoded == \A f \in DOMAIN merged.data : merged.data[f].kind = "undefined"

\* the three checks: the six bytes Exif 00 00, a byte-order marker that is
\* II or MM, and the 16-bit value 42 in that byte order
PassesHeaderChecks(segment) ==
  /\ Len(segment) >= 10
  /\ SubSeq(segment, 1, 6) = TextExifNulNul
  /\ SubSeq(segment, 7, 8) \in {<<73, 73>>, <<77, 77>>}
  /\ Field16(segment, 8, SubSeq(segment, 7, 8) = <<73, 73>>) = 42

\* C18: parseExif returns an empty field map unless the segment begins with
\* Exif 00 00, followed by a byte-order marker that is exactly II or exactly
\* MM, followed by the 16-bit value 42 read in that byte order.
C18_EmptyUnlessHeaderChecksPass ==
  (ExifCalled /\ ~PassesHeaderChecks(rendered)) => NoFieldDecoded

\* what the decoder does check: the four bytes Exif, and 42 read
\* little-endian behind II and big-endian behind any other marker
C18_EmptyUnlessExifAnd42 ==
  (ExifCalled
     /\ ~(/\ Len(rendered) >= 10
          /\ SubSeq(rendered, 1, 4) = <<69, 120, 105, 102>>
          /\ Field16(rendered, 8, SubSeq(rendered, 7, 8) = <<73, 73>>) = 42))
    => NoFieldDecoded

\* a segment that fails a check the decoder does make was decoded to the
\* empty map
C18_ReachedRejected ==
  /\ ExifCalled
  /\ Len(rendered) >= 28
  /\ SubSeq(rendered, 1, 4) # <<69, 120, 105, 102>>
  /\ NoFieldDecoded

\* the field maps after each IFD entry of the run, in processing order
History == locals.history

\* a field holds a value (a string, also the empty one, a number, also 0,
\* or an array)
HoldsValue(value) == value.kind \in {"string", "number", "array"}

\* !!value: a value the test !data.field takes as set
Truthy(value) ==
  \/ value.kind = "array"
  \/ value.kind = "string" /\ value.v # <<>>
  \/ value.kind = "number" /\ value.v[1] # 0

\* C19: first-seen-wins: once parseExif has assigned a field a value from
\* an IFD entry (the empty string and the number 0 included), no later
\* entry of the primary IFD or of the EXIF sub-IFD changes that value.
C19_FirstSeenWins ==
  ExifCalled =>
    \A i \in 1..Len(History) : \A j \in i..Len(History) :
      \A f \in DOMAIN History[i] :
        HoldsValue(History[i][f]) => History[j][f] = History[i][f]

\* what the decoder keeps: a field holding a truthy value, and iso holding
\* any number, is not changed by a later entry
C19_FirstTruthyWins ==
  ExifCalled =>
    \A i \in 1..Len(History) : \A j \in i..Len(History) :
      \A f \in DOMAIN History[i] :
        (Truthy(History[i][f]) \/ (f = "iso" /\ HoldsValue(History[i][f])))
          => History[j][f] = History[i][f]

\* a second entry with the tag of a field that holds a truthy value was
\* processed: the Make of the second entry is not the one returned
C19_ReachedSecondEntryIgnored ==
  /\ ExifCalled
  /\ Len(History) = 2
  /\ Truthy(History[1].make)
  /\ Field16(rendered, 28, SubSeq(rendered, 7, 8) = <<73, 73>>) = 271
  /\ readValue(rendered, 36, 2,
               Field32(rendered, 32, SubSeq(rendered, 7, 8) = <<73, 73>>),
               SubSeq(rendered, 7, 8) = <<73, 73>>, 6) # History[1].make
  /\ merged.data.make = History[1].make

----------------------------------------------------------------------------
(* Properties of the IPTC decoder.                                         *)

\* parseIptc was called and returned
IptcCalled == phase = "done" /\ merged.outcome = "return"

\* the buffer from offset at on is a sequence of well-formed dataset-2
\* records: marker 0x1C, dataset 2, a record number, a size of at least 1
\* and that many bytes of plain text (printable ASCII, no blanks)
RECURSIVE WellFormedRecordsFrom(_, _)
WellFormedRecordsFrom(buffer, at) ==
  \/ at = Len(buffer)
  \/ /\ at + 5 < Len(buffer)
     /\ buffer[at + 1] = 28
     /\ buffer[at + 2] = 2
     /\ LET size == 256 * buffer[at + 4] + buffer[at + 5]
        IN /\ size > 0
           /\ at + 5 + size <= Len(buffer)
           /\ \A k \in 1..size :
                buffer[at + 5 + k] > 32 /\ buffer[at + 5 + k] < 127
           /\ WellFormedRecordsFrom(buffer, at + 5 + size)

\* the records of such a buffer, in order
RECURSIVE RecordsFrom(_, _)
RecordsFrom(buffer, at) ==
  IF at >= Len(buffer) THEN <<>>
  ELSE LET size == 256 * buffer[at + 4] + buffer[at + 5]
       IN <<[number |-> buffer[at + 3],
             text |-> SubSeq(buffer, at + 6, at + 5 + size)]>>
            \o RecordsFrom(buffer, at + 5 + size)

OnlyRecords(buffer) == buffer # <<>> /\ WellFormedRecordsFrom(buffer, 0)

\* the field a dataset-2 record number is decoded to
FieldOfRecord ==
  [n \in {5, 25, 40, 55, 60, 80, 90, 92, 95, 101, 105, 110, 116, 120} |->
     CASE n = 5 -> "headline"
       [] n = 25 -> "keywords"
       [] n = 40 -> "instructions"
       [] n = 55 -> "dateCreated"
       [] n = 60 -> "timeCreated"
       [] n = 80 -> "byline"
       [] n = 90 -> "city"
       [] n = 92 -> "subLocation"
       [] n = 95 -> "stateProvince"
       [] n = 101 -> "country"
       [] n = 105 -> "headline"
       [] n = 110 -> "credit"
       [] n = 116 -> "contact"
       [] n = 120 -> "caption"]

\* record k of the records is reflected in the map: a keyword is listed; a
\* scalar field is set, and holds the record's text when no other record
\* of the buffer is decoded to the same field
RecordDecoded(records, k, data) ==
  LET r == records[k]
      f == FieldOfRecord[r.number]
      text == [kind |-> "string", v |-> r.text]
  IN IF f = "keywords"
     THEN /\ data[f].kind = "array"
          /\ \E m \in 1..Len(data[f].v) : data[f].v[m] = text
     ELSE /\ data[f].kind = "string"
          /\ (\A m \in 1..Len(records) :
                (m # k /\ records[m].number \in DOMAIN FieldOfRecord)
                  => FieldOfRecord[records[m].number] # f)
               => data[f] = text

AllRecordsDecoded(buffer, data) ==
  LET records == RecordsFrom(buffer, 0)
  IN \A k \in 1..Len(records) :
       records[k].number \in DOMAIN FieldOfRecord
         => RecordDecoded(records, k, data)

\* C20: for every buffer made only of well-formed dataset-2 records, each
\* record is decoded, whatever the total length of the buffer; for the
\* single record {0x1C, 2, 105, size 5, 'Hello'} the map has headline =
\* 'Hello'.
C20_RecordsDecoded ==
  (IptcCalled /\ OnlyRecords(rendered)) => AllRecordsDecoded(rendered, merged.data)

\* the records of a buffer of at least 14 bytes are decoded
C20_RecordsDecodedFrom14Bytes ==
  (IptcCalled /\ OnlyRecords(rendered) /\ Len(rendered) >= 14)
    => AllRecordsDecoded(rendered, merged.data)

\* the record of the spec's vector, followed by a second record, was
\* decoded: headline = 'Hello'
C20_ReachedHelloDecoded ==
  /\ IptcCalled
  /\ OnlyRecords(rendered)
  /\ Len(rendered) > 10
  /\ SubSeq(rendered, 1, 10) = <<28, 2, 105, 0, 5, 72, 101, 108, 108, 111>>
  /\ merged.data.headline = [kind |-> "string", v |-> <<72, 101, 108, 108, 111>>]

\* the field map before record i of the history was applied
DataBefore(i) ==
  IF i = 1 THEN [f \in DOMAIN merged.data |-> [kind |-> "undefined", v |-> <<>>]]
  ELSE History[i - 1].data

\* the headline and first-seen rules, for the records of a buffer made of
\* well-formed records: the headline is the text of the last Headline
\* record; an ObjectName record sets the headline when there is none at
\* that point and changes nothing otherwise; every other scalar field has
\* the text of its first record
HeadlineAndFirstSeenRules(buffer, data) ==
  LET records == RecordsFrom(buffer, 0)
      of(n) == {k \in 1..Len(records) : records[k].number = n}
      first(n) == CHOOSE k \in of(n) : \A m \in of(n) : k <= m
      last(n) == CHOOSE k \in of(n) : \A m \in of(n) : k >= m
      text(k) == [kind |-> "string", v |-> records[k].text]
  IN /\ of(105) # {} => data.headline = text(last(105))
     /\ (of(105) = {} /\ of(5) # {}) => data.headline = text(first(5))
     /\ \A i \in 1..Len(History) :
          History[i].recordNumber = 5 =>
            History[i].data.headline =
              IF DataBefore(i).headline.kind = "undefined"
              THEN [kind |-> "string", v |-> History[i].value]
              ELSE DataBefore(i).headline
     /\ \A n \in DOMAIN FieldOfRecord \ {5, 25, 105} :
          of(n) # {} => data[FieldOfRecord[n]] = text(first(n))

\* C21: for any sequence of well-formed dataset-2 records the final
\* headline is the value of the last Headline record (105) wherever
\* ObjectName records (5) appear; an ObjectName record sets headline only
\* when it is absent at that point; every other scalar field keeps the
\* value of its first record.
C21_HeadlineLastOthersFirst ==
  (IptcCalled /\ OnlyRecords(rendered))
    => HeadlineAndFirstSeenRules(rendered, merged.data)

\* the rules hold for the sequences of at least 14 bytes
C21_RulesFrom14Bytes ==
  (IptcCalled /\ OnlyRecords(rendered) /\ Len(rendered) >= 14)
    => HeadlineAndFirstSeenRules(rendered, merged.data)

\* a Headline record, then an ObjectName record, then a second Headline
\* record were decoded
C21_ReachedHeadlineObjectNameHeadline ==
  /\ IptcCalled
  /\ OnlyRecords(rendered)
  /\ Len(History) = 3
  /\ <<History[1].recordNumber, History[2].recordNumber,
       History[3].recordNumber>> = <<105, 5, 105>>
  /\ History[1].value # History[3].value
  /\ merged.data.headline = [kind |-> "string", v |-> History[3].value]

\* the values of a sequence in the order of their first occurrence
RECURSIVE FirstOccurrences(_, _)
FirstOccurrences(values, seen) ==
  IF values = <<>> THEN <<>>
  ELSE IF Head(values) \in seen THEN FirstOccurrences(Tail(values), seen)
  ELSE <<Head(values)>>
         \o FirstOccurrences(Tail(values), seen \cup {Head(values)})

\* the values of the Keywords records (25) matched by the two passes, in
\* the order they were matched
MatchedKeywords ==
  LET matched == SelectSeq(History, LAMBDA h : h.recordNumber = 25)
  IN [k \in 1..Len(matched) |-> matched[k].value]

\* C22: after parseIptc, keywords (when present) holds no value twice and
\* is exactly the distinct non-empty values of the Keywords records matched
\* by either pass, in the order of their first occurrence, also when both
\* passes match the same records.
C22_KeywordsDistinctInOrder ==
  IptcCalled =>
    /\ (merged.data.keywords.kind = "undefined") = (MatchedKeywords = <<>>)
    /\ merged.data.keywords.kind # "undefined" =>
         LET list == merged.data.keywords.v
         IN /\ \A i \in 1..Len(list) : \A j \in 1..Len(list) :
                 list[i] = list[j] => i = j
            /\ list = [k \in 1..Len(FirstOccurrences(MatchedKeywords, {})) |->
                         [kind |-> "string",
                          v |-> FirstOccurrences(MatchedKeywords, {})[k]]]

\* both passes matched the same Keywords record of an 8BIM block, and a
\* second keyword was matched: two keywords are listed
C22_Witness ==
  /\ IptcCalled
  /\ \E i \in 1..Len(History) : \E j \in 1..Len(History) :
       /\ History[i].recordNumber = 25 /\ History[j].recordNumber = 25
       /\ History[i].pass = "block" /\ History[j].pass = "direct"
       /\ History[i].value = History[j].value
  /\ merged.data.keywords.kind = "array"
  /\ Len(merged.data.keywords.v) = 2

\* a well-formed dataset-2 record of plain text lies at offset at
PlainRecordAt(buffer, at) ==
  /\ at + 5 < Len(buffer)
  /\ buffer[at + 1] = 28
  /\ buffer[at + 2] = 2
  /\ LET size == 256 * buffer[at + 4] + buffer[at + 5]
     IN /\ size > 0
        /\ at + 5 + size <= Len(buffer)
        /\ \A k \in 1..size :
             buffer[at + 5 + k] > 32 /\ buffer[at + 5 + k] < 127

\* the five bytes of a dataset-2 record header lie at offset at, with a
\* declared size of 0 or one that reaches past the end of the buffer
BadSizeAt(buffer, at) ==
  /\ at + 5 <= Len(buffer)
  /\ buffer[at + 1] = 28
  /\ buffer[at + 2] = 2
  /\ LET size == 256 * buffer[at + 4] + buffer[at + 5]
     IN size = 0 \/ at + 5 + size > Len(buffer)

\* the buffer from at on is made of plain records and of headers with a
\* bad size
RECURSIVE RecordsAndBadSizesFrom(_, _)
RecordsAndBadSizesFrom(buffer, at) ==
  \/ at = Len(buffer)
  \/ /\ PlainRecordAt(buffer, at)
     /\ RecordsAndBadSizesFrom(
          buffer, at + 5 + 256 * buffer[at + 4] + buffer[at + 5])
  \/ /\ BadSizeAt(buffer, at)
     /\ RecordsAndBadSizesFrom(buffer, at + 5)

\* the offsets of the plain records that directly follow a header with a
\* bad size
BehindBadSize(buffer) ==
  {at \in 5..Len(buffer) :
     BadSizeAt(buffer, at - 5) /\ PlainRecordAt(buffer, at)}

\* the payload of the segment's 8BIM block: the segment is an optional
\* Photoshop header and one block with the IPTC resource ID, an empty name
\* and a payload up to the end of the segment; <<>> for any other segment
BlockPayload(segment) ==
  LET b == IF Len(segment) >= 14
              /\ SubSeq(segment, 1, 14)
                   = <<80, 104, 111, 116, 111, 115, 104, 111, 112, 32, 51,
                       46, 48, 0>>
           THEN 14 ELSE 0
  IN IF /\ Len(segment) > b + 12
        /\ SubSeq(segment, b + 1, b + 8) = <<56, 66, 73, 77, 4, 4, 0, 0>>
        /\ SubSeq(segment, b + 9, b + 11) = <<0, 0, 0>>
        /\ segment[b + 12] = Len(segment) - b - 12
     THEN SubSeq(segment, b + 13, Len(segment))
     ELSE <<>>

\* the pass decoded the record at the offset of the buffer it scanned
DecodedBy(pass, at) ==
  \E i \in 1..Len(History) : History[i].pass = pass /\ History[i].offset = at

\* the scan of an 8BIM block resumes behind the marker of a bad size
BlockScanResumesBehindMarker ==
  (IptcCalled /\ RecordsAndBadSizesFrom(BlockPayload(rendered), 0))
    => \A at \in BehindBadSize(BlockPayload(rendered)) : DecodedBy("block", at)

\* the direct scan of a segment that passes the length check resumes
\* behind the marker of a bad size
DirectScanResumesBehindMarker ==
  (IptcCalled /\ Len(rendered) >= 14 /\ RecordsAndBadSizesFrom(rendered, 0))
    => \A at \in BehindBadSize(rendered) : DecodedBy("direct", at)

\* C24: in the scan of an 8BIM block and in the direct scan, a dataset-2
\* record whose declared size is 0 or reaches past the end of the scanned
\* buffer is invalid and the scan resumes at the byte behind the marker,
\* so that a valid record inside the span claimed by the bad size is
\* decoded.
C24_BadSizeAdvancesByOne ==
  BlockScanResumesBehindMarker /\ DirectScanResumesBehindMarker

\* the part that holds: the scan of an 8BIM block
C24_BlockScanAdvancesByOne == BlockScanResumesBehindMarker

\* a record behind a bad size in an 8BIM block was decoded by the scan of
\* the block
C24_ReachedDecodedInBlock ==
  /\ IptcCalled
  /\ RecordsAndBadSizesFrom(BlockPayload(rendered), 0)
  /\ \E at \in BehindBadSize(BlockPayload(rendered)) : DecodedBy("block", at)

\* the field map obtained by decoding records once, in order: a Headline
\* record sets the headline, an ObjectName record sets it when there is
\* none, a Keywords record adds its text unless it is listed, every other
\* record sets its field when the field is unset
RECURSIVE DecodedOnce(_, _)
DecodedOnce(records, data) ==
  IF records = <<>> THEN data
  ELSE LET r == Head(records)
           f == FieldOfRecord[r.number]
           text == [kind |-> "string", v |-> r.text]
           listed == IF data.keywords.kind = "array"
                     THEN data.keywords.v ELSE <<>>
           next ==
             IF r.number \notin DOMAIN FieldOfRecord THEN data
             ELSE IF r.number = 105 THEN [data EXCEPT !.headline = text]
             ELSE IF r.number = 25
             THEN [data EXCEPT !.keywords =
                     [kind |-> "array",
                      v |-> IF \E k \in 1..Len(listed) : listed[k] = text
                            THEN listed ELSE Append(listed, text)]]
             ELSE IF data[f].kind = "undefined"
             THEN [data EXCEPT ![f] = text]
             ELSE data
       IN DecodedOnce(Tail(records), next)

\* the segment is an optional Photoshop header and one 8BIM block whose
\* payload is a sequence of well-formed dataset-2 records
OneBlockOfRecords(segment) == OnlyRecords(BlockPayload(segment))

C25_WitnessPhotoshopHeader ==
  /\ IptcCalled
  /\ OneBlockOfRecords(rendered)
  /\ Len(BlockPayload(rendered)) < Len(rendered) - 12
  /\ Len(History) = 2
  /\ History[1].pass = "block" /\ History[2].pass = "direct"

\* a block with a Headline record in front of an ObjectName record
C25_WitnessObjectName ==
  /\ IptcCalled
  /\ OneBlockOfRecords(rendered)
  /\ Len(History) = 4
  /\ <<History[1].recordNumber, History[2].recordNumber>> = <<105, 5>>
  /\ merged.data.headline = [kind |-> "string", v |-> History[1].value]

----------------------------------------------------------------------------
(* Properties of the ExposureTime rendering.                               *)

\* the 0-based offsets of the entries of the IFD at offset 8 of the TIFF
\* header that lie in the segment
EntryOffsets(segment) ==
  LET le == SubSeq(segment, 7, 8) = <<73, 73>>
  IN {14 + 2 + 12 * k : k \in 0..(Field16(segment, 14, le) - 1)}

\* The segment has a well-formed header with the IFD at offset 8; the IFD
\* lies in the segment, one of its entries is the pointer to the EXIF
\* sub-IFD with the value 8 (the sub-IFD is the same IFD), and the entry at
\* the offset at is a RATIONAL ExposureTime with a count of 1 whose eight
\* bytes lie in the segment.
ExposureTimeEntryAt(segment, at) ==
  /\ WellFormedTiffHeader(segment)
  /\ Len(segment) >= 16
  /\ LET le == SubSeq(segment, 7, 8) = <<73, 73>>
     IN /\ Field32(segment, 10, le) = 8
        /\ Len(segment) >= 16 + 12 * Field16(segment, 14, le)
        /\ at \in EntryOffsets(segment)
        /\ \A e \in EntryOffsets(segment) :
             \/ e = at /\ Field16(segment, e, le) = 33434
                       /\ Field16(segment, e + 2, le) = 5
                       /\ Field32(segment, e + 4, le) = 1
                       /\ 6 + Field32(segment, e + 8, le) + 8 <= Len(segment)
             \/ e # at /\ Field16(segment, e, le) = 34665
                       /\ Field16(segment, e + 2, le) = 4
                       /\ Field32(segment, e + 4, le) = 1
                       /\ Field32(segment, e + 8, le) = 8
        /\ EntryOffsets(segment) # {at}

\* numerator and denominator of the RATIONAL of the entry at the offset
RationalAt(segment, at) ==
  LET le == SubSeq(segment, 7, 8) = <<73, 73>>
      v == 6 + Field32(segment, at + 8, le)
  IN <<Field32(segment, v, le), Field32(segment, v + 4, le)>>

\* the decimal digits of a natural number
RECURSIVE DecimalDigits(_)
DecimalDigits(n) ==
  IF n < 10 THEN <<48 + n>>
  ELSE DecimalDigits(n \div 10) \o <<48 + (n % 10)>>

\* the decimal rendering of num / den >= 1 with a fractional part of at
\* most places digits
RECURSIVE DecimalFraction(_, _, _)
DecimalFraction(rest, den, places) ==
  IF rest = 0 \/ places = 0 THEN <<>>
  ELSE <<48 + ((10 * rest) \div den)>>
         \o DecimalFraction((10 * rest) % den, den, places - 1)

Decimal(num, den) ==
  DecimalDigits(num \div den)
    \o (IF num % den = 0 THEN <<>>
        ELSE <<46>> \o DecimalFraction(num % den, den, 6))

\* the text is 1/<n> with n a positive integer in decimal digits
OneOverPositiveInteger(text) ==
  /\ Len(text) >= 3
  /\ SubSeq(text, 1, 2) = <<49, 47>>
  /\ \A k \in 3..Len(text) : text[k] \in 48..57
  /\ text[3] # 48

\* the rendering of the value num / den, or 0 when den = 0
ExposureTimeRendered(num, den, field) ==
  /\ field.kind = "string"
  /\ IF den = 0 \/ num < den
     THEN OneOverPositiveInteger(field.v)
     ELSE field.v = Decimal(num, den)

\* C26: for a RATIONAL ExposureTime entry of the EXIF sub-IFD parseExif
\* returns; a zero denominator gives the value 0; a value below 1, the 0
\* of a zero numerator or denominator included, is rendered as 1/<n> with
\* n a finite positive integer, any other value in decimal.
C26_ExposureTimeRendered ==
  ExifCalled =>
    \A at \in 16..28 :
      ExposureTimeEntryAt(rendered, at) =>
        ExposureTimeRendered(RationalAt(rendered, at)[1],
                             RationalAt(rendered, at)[2],
                             merged.data.exposureTime)

\* the rendering holds for the values above 0
C26_RenderedWhenPositive ==
  ExifCalled =>
    \A at \in 16..28 :
      (/\ ExposureTimeEntryAt(rendered, at)
       /\ RationalAt(rendered, at)[1] > 0
       /\ RationalAt(rendered, at)[2] > 0) =>
        ExposureTimeRendered(RationalAt(rendered, at)[1],
                             RationalAt(rendered, at)[2],
                             merged.data.exposureTime)

\* 1/250 was rendered as 1/250 and 5/2 as 2.5
C26_Reached250 ==
  /\ ExifCalled
  /\ \E at \in 16..28 : ExposureTimeEntryAt(rendered, at)
                          /\ RationalAt(rendered, at) = <<1, 250>>
  /\ merged.data.exposureTime.v = <<49, 47, 50, 53, 48>>

C26_ReachedDecimal ==
  /\ ExifCalled
  /\ \E at \in 16..28 : ExposureTimeEntryAt(rendered, at)
                          /\ RationalAt(rendered, at) = <<5, 2>>
  /\ merged.data.exposureTime.v = <<50, 46, 53>>

----------------------------------------------------------------------------
(* Termination of the chunk scan.                                          *)

\* the scan of the buffer ends, and every chunk read moved the offset up
ScanEndsOffsetsIncrease(bytes) ==
  LET parsed == parsePngChunks(bytes)
  IN /\ parsed.exit # "never"
     /\ \A k \in 1..Len(parsed.chunks) :
          parsed.chunks[k].end > parsed.chunks[k].start
     /\ \A k \in 1..(Len(parsed.chunks) - 1) :
          parsed.chunks[k + 1].start > parsed.chunks[k].start

\* a chunk was read whose length field has the top bit set
ReadsNegativeLength(bytes) ==
  \E k \in 1..Len(parsePngChunks(bytes).chunks) :
    parsePngChunks(bytes).chunks[k].length < 0

\* C28: parsePngChunks ends on every buffer with a valid signature and the
\* scan offset goes up with every chunk read, whatever the length field,
\* lengths with the top bit set included.
C28_ScanTerminates ==
  (phase = "done" /\ hasPngSignature(rendered)) =>
    ScanEndsOffsetsIncrease(rendered)

\* the same for the scans that read no length below -11
C28_TerminatesAboveMinus12 ==
  (/\ phase = "done"
   /\ hasPngSignature(rendered)
   /\ \A k \in 1..Len(parsePngChunks(rendered).chunks) :
        parsePngChunks(rendered).chunks[k].length > -12) =>
    ScanEndsOffsetsIncrease(rendered)

\* a scan that read two chunks and then the length FF FF FF F8 has ended:
\* the offset went up by 4
C28_ReachedNegativeLength ==
  /\ phase = "done"
  /\ hasPngSignature(rendered)
  /\ ReadsNegativeLength(rendered)
  /\ Len(parsePngChunks(rendered).chunks) >= 3
  /\ parsePngChunks(rendered).exit = "end"

----------------------------------------------------------------------------
(* Agreement of the aggregator's scan with the parser of the merge.        *)

AggregateCalled == phase \in {"parsed", "threw"} /\ "payloads" \in DOMAIN merged

\* the payloads of the segments with the marker among those the merge
\* carries over: the bytes of each segment behind marker and length
CarriedPayloads(marker) ==
  LET kept == SelectSeq(keepFromOriginal(locals.origSegs.segments),
                        LAMBDA seg : seg.marker = marker)
  IN [k \in 1..Len(kept) |->
        IF Len(kept[k].data) <= 4 THEN <<>>
        ELSE SubSeq(kept[k].data, 5, Len(kept[k].data))]

\* the last segment parsed declares more bytes than the buffer holds
LastSegmentOverruns ==
  LET segs == locals.origSegs.segments
  IN Len(segs) > 0 /\ segs[Len(segs)].end > Len(original)

\* C30: for every buffer starting with SOI the APP1 payloads returned by
\* extractAllAppSegments are the payloads of the APP1 segments that
\* parseJpegSegments returns and the merge carries over, in the same
\* order, and likewise for APP2 and APP13.
C30_SameSegments ==
  (AggregateCalled /\ startsWithSoi(original)) =>
    \A m \in {APP1, APP2, APP13} : merged.payloads[m] = CarriedPayloads(m)

\* the two agree when no segment overruns the buffer
C30_SameSegmentsWithoutOverrun ==
  (AggregateCalled /\ startsWithSoi(original) /\ ~LastSegmentOverruns) =>
    \A m \in {APP1, APP2, APP13} : merged.payloads[m] = CarriedPayloads(m)

\* two APP1 payloads and an APP2 payload were found by both
C30_ReachedThreeSegments ==
  /\ AggregateCalled
  /\ ~LastSegmentOverruns
  /\ merged.payloads[APP1] = << <<69>>, <<>> >>
  /\ merged.payloads[APP2] = << <<9>> >>
  /\ CarriedPayloads(APP1) = merged.payloads[APP1]
  /\ CarriedPayloads(APP2) = merged.payloads[APP2]

----------------------------------------------------------------------------
(* Properties of the XMP extractor.                                        *)

XmpCalled == phase = "xmp"

\* the 0-based offsets at which the pattern occurs in the text
Occurrences(text, pattern) ==
  {i \in 0..(Len(text) - Len(pattern)) :
     SubSeq(text, i + 1, i + Len(pattern)) = pattern}

\* '<?xpacket'
XpacketMarker ==
  <<60, 63, 120, 112, 97, 99, 107, 101, 116>>

\* '<x:xmpmeta>'
XmpmetaTag ==
  <<60, 120, 58, 120, 109, 112, 109, 101, 116, 97, 62>>

\* '<dc:subject><rdf:Bag><rdf:li>cat</rdf:li><rdf:li>dog</rdf:li></rdf:Bag>'
CatDogSubject ==
  <<60, 100, 99, 58, 115, 117, 98, 106, 101, 99, 116, 62, 60, 114, 100,
    102, 58, 66, 97, 103, 62, 60, 114, 100, 102, 58, 108, 105, 62, 99, 97,
    116, 60, 47, 114, 100, 102, 58, 108, 105, 62, 60, 114, 100, 102, 58,
    108, 105, 62, 100, 111, 103, 60, 47, 114, 100, 102, 58, 108, 105, 62,
    60, 47, 114, 100, 102, 58, 66, 97, 103, 62>>

\* the keywords cat and dog
CatDog == Js("array", << <<99, 97, 116>>, <<100, 111, 103>> >>)

\* the segment has the form <?xpacket ...?><x:xmpmeta>...<dc:subject>
\* <rdf:Bag><rdf:li>cat</rdf:li><rdf:li>dog</rdf:li></rdf:Bag>...
HasPacketForm(segment) ==
  /\ 0 \in Occurrences(segment, XpacketMarker)
  /\ \E m \in Occurrences(segment, XmpmetaTag) :
       \E c \in Occurrences(segment, CatDogSubject) : m < c

\* the start marker <?xm occurs at the offset, not behind a NUL, and the
\* subject with cat and dog follows it in the document
DocumentAt(segment, at) ==
  /\ at \in Occurrences(segment, TextXmStart)
  /\ \A k \in 1..at : segment[k] # 0
  /\ \E c \in Occurrences(segment, CatDogSubject) : at < c

\* C23: from a segment <?xpacket ...?><x:xmpmeta>...<dc:subject><rdf:Bag>
\* <rdf:li>cat</rdf:li><rdf:li>dog</rdf:li></rdf:Bag></dc:subject>... the
\* extractor returns the keywords cat and dog, and the document is found
\* and its keywords are extracted wherever its start marker <?xm occurs,
\* offset 0 included.
C23_KeywordsExtracted ==
  XmpCalled =>
    /\ HasPacketForm(rendered) => merged.info.keywords = CatDog
    /\ \A at \in 0..Len(rendered) :
         DocumentAt(rendered, at) => merged.info.keywords = CatDog

\* the keywords are extracted when the start marker occurs behind offset 0
C23_ExtractedBehindOffset0 ==
  XmpCalled =>
    \A at \in 1..Len(rendered) :
      DocumentAt(rendered, at) => merged.info.keywords = CatDog

\* cat and dog were extracted from a document behind an <?xpacket?>
C23_ReachedCatDog ==
  /\ XmpCalled
  /\ HasPacketForm(rendered)
  /\ \E at \in 1..Len(rendered) : DocumentAt(rendered, at)
  /\ locals.xmlStart > 0
  /\ merged.info.keywords = CatDog

\* a call without TextDecoder extracted a cleaned keyword and both code
\* units of a two-byte character
C23_ReachedCleanedKeyword ==
  /\ XmpCalled
  /\ merged.info.keywords = Js("array", << <<97, 38, 98>>, <<195, 169>> >>)

----------------------------------------------------------------------------
(* Properties of the message flow between the plugin and its UI.           *)

UiRunning == phase = "ui"

\* nothing is in flight: no message, no pending promise, no export delay
Quiescent ==
  /\ locals.toUi = <<>> /\ locals.toPlugin = <<>>
  /\ locals.pending = <<>> /\ locals.timers = <<>>

\* what is displayed once nothing is in flight is the metadata of the
\* active image
DisplayedIsActive ==
  (UiRunning /\ Quiescent /\ locals.shown # "") =>
    locals.shown = locals.selectedImageHash

\* nothing is displayed after no-selection or no-image-fills until an image
\* becomes active
ClearedStaysCleared ==
  (UiRunning /\ locals.cleared) => locals.shown = ""

\* a step that changes the display shows the metadata of the active image
DisplayChangesToActive ==
  (UiRunning /\ UiRunning' /\ locals'.shown # locals.shown
     /\ locals'.shown # "") =>
    locals'.shown = locals'.selectedImageHash

\* C27: under any interleaving of selection changes, thumbnail clicks and
\* completions of loadAndSendMetadata, once everything in flight has been
\* delivered the metadata displayed is that of the UI's selectedImageHash;
\* a metadata message for a previously active image never replaces the
\* display of the current one; and nothing is displayed after no-selection
\* or no-image-fills unless a new image became active.
C27_DisplayFollowsActiveImage ==
  /\ [](DisplayedIsActive /\ ClearedStaysCleared)
  /\ [][DisplayChangesToActive]_vars

\* the display of the active image after a thumbnail click: the metadata
\* of the clicked image is shown once nothing is in flight
C27_ReachedClickedDisplayed ==
  /\ UiRunning /\ Quiescent
  /\ locals.picked = "b"
  /\ locals.selectedImageHash = "b"
  /\ locals.shown = "b"

\* the display is that of a previously active image although nothing is in
\* flight
C27_ReachedStaleDisplay ==
  /\ UiRunning /\ Quiescent
  /\ locals.selectedImageHash = "b"
  /\ locals.shown = "c"

\* the export message of a click on Export that followed a click on a
\* thumbnail carries the hash of that thumbnail
ExportCarriesClicked ==
  UiRunning =>
    \A k \in DOMAIN locals.sent :
      locals.sent[k].expected # "" =>
        locals.sent[k].selectedImageHash = locals.sent[k].expected

\* the bytes read for such an export are those of the clicked thumbnail
ExportReadsClicked ==
  UiRunning =>
    \A k \in DOMAIN locals.reads :
      locals.reads[k].expected # "" =>
        locals.reads[k].imageHash = locals.reads[k].expected

\* the hash read belongs to an image fill of the node exported
ReadBelongsToNode ==
  UiRunning =>
    \A k \in DOMAIN locals.reads :
      locals.reads[k].expected # "" =>
        \E j \in DOMAIN findAllImageFills(locals.reads[k].node) :
          findAllImageFills(locals.reads[k].node)[j]
            = locals.reads[k].imageHash

\* C29: when the selected node has several image fills and the user has
\* clicked thumbnail H, a following click on Export, with no change of the
\* selection in between, sends an export message whose selectedImageHash
\* is H, and the bytes read by exportSelectedWithMetadata are those of H,
\* under every interleaving of the re-check, its multiple-fills reply and
\* the delay; the hash used belongs to an image fill of the node exported.
C29_ExportUsesClickedThumbnail ==
  ExportCarriesClicked /\ ExportReadsClicked /\ ReadBelongsToNode

\* the hash read belongs to the node exported, whichever thumbnail it is
C29_ReadBelongsToNode == ReadBelongsToNode

\* an export after a click on thumbnail b read the bytes of b
C29_ReachedExportOfClicked ==
  /\ UiRunning
  /\ \E k \in DOMAIN locals.reads :
       /\ locals.reads[k].expected = "b"
       /\ locals.reads[k].imageHash = "b"
       /\ locals.reads[k].node = "two"
  /\ \E k \in DOMAIN downloads : downloads[k].imageHash = "b"

====
